---- MODULE Spec2Model ----
(***************************************************************************)
(* The real-time collaboration broker of apps/sim/socket-server: the room  *)
(* registry (RoomManager), the join-workspace / leave-workspace socket     *)
(* handlers and the RoomManager operations driven by the HTTP ingress.     *)
(*                                                                         *)
(* Init is the broker with the connections of Sockets open: each has       *)
(* completed its handshake and joined no room.                             *)
(*                                                                         *)
(* One action is one handler run between two suspension points.  The only  *)
(* suspension point of the handlers modelled here is the await of          *)
(* verifyWorkspaceAccess in join-workspace, so that handler is two         *)
(* actions (JoinWorkspace, JoinWorkspaceResume); every other handler is    *)
(* synchronous and is one action.                                          *)
(***************************************************************************)
EXTENDS Integers, FiniteSets, Sequences, TLC

(* ---------------------------------------------------------------------- *)
(* Bounds and input sets                                                   *)
(* ---------------------------------------------------------------------- *)

\* cap on activeConnections of a room (the counter is unbounded in the code)
MaxActive == 2
\* cap on the number of join-workspace handlers suspended in their access check
MaxPending == 1
\* cap on the server clock (Date.now() is unbounded in the code)
MaxClock == 2
\* cap on the number of refetches the client hook starts per resource
MaxFetches == 2

\* cap on the number of times one resource-change tuple is processed in a row
MaxRepeats == 3

\* cap on the number of position updates the client passes to emitWorkflowOperation
MaxUpdates == 2

\* cap on the number of times the client leaves, joins or switches workflow rooms
MaxSwitches == 1

\* cap on the number of calls of notifyWorkspaceResourceChange
MaxCalls == 2

\* cap on the number of initializeWorkspace runs of the client in flight
MaxRuns == 2

MAX_RETRIES == 3

\* the resources the client hook refetches as a whole
ResourceNames == {"environment variables", "custom tool", "folder", "MCP server"}

NoUser == "nouser"
None == "none"

Sockets == {"s1", "s2", "s3", "s4"}
Users == {"u1", "u2"}
Workspaces == {"WS1", "WS2"}
Workflows == {"W1", "W2"}
Roles == {"read", "edit"}

\* socket.userId as stamped by the authentication middleware; s4 carries none
UserOf(s) ==
  CASE s = "s1" -> "u1"
    [] s = "s2" -> "u1"
    [] s = "s3" -> "u2"
    [] OTHER -> NoUser

VARIABLES
  workflowRooms,      \* workflowId -> [users : socketId -> presence, activeConnections, lastModified]
  workspaceRooms,     \* workspaceId -> [users : set of socketIds, activeConnections, lastModified]
  socketToWorkflow,   \* socketId -> workflowId
  socketToWorkspace,  \* socketId -> [workspaceId, role]
  userSessions,       \* socketId -> userId
  ioRooms,            \* socketId -> set of socket.io rooms the socket has joined
  pendingJoins,       \* join-workspace handlers suspended in verifyWorkspaceAccess
  now,                \* the server clock, read by Date.now()
  routeWorkspaceId,   \* client: params.workspaceId, the workspace id of the route
  isApplyingRemoteChange, \* client: the ref shared by the resource handlers
  pendingFetches,     \* client: the resources whose refetch is in flight
  fetchCalls,         \* client: resource -> number of refetches started
  mounted,            \* client: WorkspaceInitializer is mounted
  initState,          \* client: state of WorkspaceInitializer
  initializingRef,    \* client: initializingRef.current
  currentWorkspaceRef, \* client: currentWorkspaceRef.current
  initRuns,           \* client: initializeWorkspace runs suspended at an await
  retryTimers,        \* client: the retry timers that are scheduled
  notifications,      \* API server: the calls of notifyWorkspaceResourceChange
  workflowInit,       \* client: WorkflowInitializer (state, refs, runs, timers)
  socketContext,      \* client: SocketProvider (workflow room, position throttle, sent events)
  clientStores,       \* client: registry, operation queue, workflow and subblock stores
  lastOp,             \* the handler run by the last step, with its arguments
  lastEmit            \* the events that handler run emitted, in order

\* the state of the broker and the state of one client
brokerVars == <<workflowRooms, workspaceRooms, socketToWorkflow, socketToWorkspace,
                userSessions, ioRooms, pendingJoins, now>>
hookVars == <<isApplyingRemoteChange, pendingFetches, fetchCalls>>
initializerVars == <<mounted, initState, initializingRef, currentWorkspaceRef, initRuns,
                     retryTimers>>
clientVars == <<routeWorkspaceId, hookVars, initializerVars, notifications, workflowInit,
                socketContext, clientStores>>

vars == <<brokerVars, clientVars, lastOp, lastEmit>>

(* ---------------------------------------------------------------------- *)
(* Maps                                                                    *)
(* ---------------------------------------------------------------------- *)

EmptyMap == [x \in {} |-> None]
MapSet(m, k, v) == [x \in (DOMAIN m) \cup {k} |-> IF x = k THEN v ELSE m[x]]
MapDelete(m, k) == [x \in (DOMAIN m) \ {k} |-> m[x]]
Has(m, k) == k \in DOMAIN m

Max(a, b) == IF a >= b THEN a ELSE b

\* all orders in which the elements of S can be iterated
Orders(S) ==
  {q \in [1..Cardinality(S) -> S] : \A i, j \in 1..Cardinality(S) : q[i] = q[j] => i = j}

(* ---------------------------------------------------------------------- *)
(* The registry as a value, so that the RoomManager methods compose        *)
(* ---------------------------------------------------------------------- *)

Registry ==
  [workflowRooms |-> workflowRooms,
   workspaceRooms |-> workspaceRooms,
   socketToWorkflow |-> socketToWorkflow,
   socketToWorkspace |-> socketToWorkspace,
   userSessions |-> userSessions,
   ioRooms |-> ioRooms,
   now |-> now,
   out |-> << >>]

\* socket.emit(event, payload)
SocketEmit(st, s, event, payload) ==
  [st EXCEPT !.out = Append(@, [event |-> event, room |-> None, to |-> {s}, payload |-> payload])]

\* io.to(room).emit(event, payload): delivered to the sockets joined to the room
RoomEmit(st, room, event, payload) ==
  [st EXCEPT !.out = Append(@, [event |-> event, room |-> room,
                                to |-> {s \in Sockets : room \in st.ioRooms[s]},
                                payload |-> payload])]

\* socket.join(room) / socket.leave(room)
SocketJoin(st, s, room) == [st EXCEPT !.ioRooms[s] = @ \cup {room}]
SocketLeave(st, s, room) == [st EXCEPT !.ioRooms[s] = @ \ {room}]

createWorkflowRoom(dateNow) ==
  [users |-> EmptyMap, lastModified |-> dateNow, activeConnections |-> 0]
createWorkspaceRoom(dateNow) ==
  [users |-> {}, lastModified |-> dateNow, activeConnections |-> 0]

cleanupUserFromRoom(st, socketId, workflowId) ==
  LET st1 ==
        IF Has(st.workflowRooms, workflowId)
        THEN LET room == st.workflowRooms[workflowId]
                 users == MapDelete(room.users, socketId)
                 active == Max(0, room.activeConnections - 1)
             IN  IF active = 0
                 THEN [st EXCEPT !.workflowRooms = MapDelete(@, workflowId)]
                 ELSE [st EXCEPT !.workflowRooms[workflowId] =
                                    [@ EXCEPT !.users = users, !.activeConnections = active]]
        ELSE st
  IN  [st1 EXCEPT !.socketToWorkflow = MapDelete(@, socketId),
                  !.userSessions = MapDelete(@, socketId)]

\* cleanupUserFromWorkspaceRoom keeping a room whose last connection left
cleanupUserFromWorkspaceRoom_keepsEmptyRoom(st, socketId, workspaceId) ==
  LET st1 ==
        IF Has(st.workspaceRooms, workspaceId)
        THEN LET room == st.workspaceRooms[workspaceId]
                 users == room.users \ {socketId}
                 active == Max(0, room.activeConnections - 1)
             IN  [st EXCEPT !.workspaceRooms[workspaceId] =
                              [@ EXCEPT !.users = users, !.activeConnections = active]]
        ELSE st
  IN  [st1 EXCEPT !.socketToWorkspace = MapDelete(@, socketId)]

cleanupUserFromWorkspaceRoom(st, socketId, workspaceId) ==
  LET st1 ==
        IF Has(st.workspaceRooms, workspaceId)
        THEN LET room == st.workspaceRooms[workspaceId]
                 users == room.users \ {socketId}
                 active == Max(0, room.activeConnections - 1)
             IN  IF active = 0
                 THEN [st EXCEPT !.workspaceRooms = MapDelete(@, workspaceId)]
                 ELSE [st EXCEPT !.workspaceRooms[workspaceId] =
                                    [@ EXCEPT !.users = users, !.activeConnections = active]]
        ELSE st
  IN  [st1 EXCEPT !.socketToWorkspace = MapDelete(@, socketId)]

broadcastPresenceUpdate(st, workflowId) ==
  IF Has(st.workflowRooms, workflowId)
  THEN RoomEmit(st, workflowId, "presence-update", st.workflowRooms[workflowId].users)
  ELSE st

getWorkspaceIdForSocket(st, socketId) ==
  IF Has(st.socketToWorkspace, socketId) THEN st.socketToWorkspace[socketId].workspaceId ELSE None

getWorkspaceRoleForSocket(st, socketId) ==
  IF Has(st.socketToWorkspace, socketId) THEN st.socketToWorkspace[socketId].role ELSE None

\* setSocketWorkspace caching the role "read" whatever role it is given
setSocketWorkspace_cachesRead(st, socketId, workspaceId, role) ==
  [st EXCEPT !.socketToWorkspace = MapSet(@, socketId, [workspaceId |-> workspaceId, role |-> "read"])]

setSocketWorkspace(st, socketId, workspaceId, role) ==
  [st EXCEPT !.socketToWorkspace = MapSet(@, socketId, [workspaceId |-> workspaceId, role |-> role])]

(* ---------------------------------------------------------------------- *)
(* Steps                                                                   *)
(* ---------------------------------------------------------------------- *)

NoOp ==
  [op |-> None, socket |-> None, workspaceId |-> None, workflowId |-> None,
   userId |-> None, role |-> None, isRemoved |-> FALSE, access |-> None,
   resourceType |-> None, operation |-> None, data |-> None,
   description |-> None, timestamp |-> None, body |-> None, status |-> None,
   resourceName |-> None, outcome |-> None, retryAttempt |-> None, cleaned |-> None]

\* commit the registry value a handler run produced
Commit(st, op) ==
  /\ workflowRooms' = st.workflowRooms
  /\ workspaceRooms' = st.workspaceRooms
  /\ socketToWorkflow' = st.socketToWorkflow
  /\ socketToWorkspace' = st.socketToWorkspace
  /\ userSessions' = st.userSessions
  /\ ioRooms' = st.ioRooms
  /\ now' = now
  /\ lastEmit' = st.out
  /\ lastOp' = op
  /\ UNCHANGED clientVars

Init ==
  /\ workflowRooms = EmptyMap
  /\ workspaceRooms = EmptyMap
  /\ socketToWorkflow = EmptyMap
  /\ socketToWorkspace = EmptyMap
  /\ userSessions = [s \in {x \in Sockets : UserOf(x) # NoUser} |-> UserOf(s)]
  /\ ioRooms = [s \in Sockets |-> {}]
  /\ pendingJoins = {}
  /\ now = 0
  /\ routeWorkspaceId = "WS1"
  /\ isApplyingRemoteChange = FALSE
  /\ pendingFetches = {}
  /\ fetchCalls = [resourceName \in ResourceNames |-> 0]
  /\ mounted = TRUE
  /\ initState = [isInitializing |-> TRUE, isReady |-> FALSE, error |-> None, retryCount |-> 0]
  /\ initializingRef = TRUE
  /\ currentWorkspaceRef = None
  /\ initRuns = {[workspaceId |-> "WS1", retryAttempt |-> 0, phase |-> "critical"]}
  /\ retryTimers = {}
  /\ notifications = << >>
  /\ workflowInit =
       [state |-> [isInitializing |-> TRUE, isReady |-> FALSE, error |-> None, retryCount |-> 0],
        initializingRef |-> TRUE,
        currentWorkflowRef |-> None,
        activeWorkflowId |-> None,
        runs |-> {[workflowId |-> "W1", retryAttempt |-> 0]},
        timers |-> {}]
  /\ socketContext =
       [currentWorkflowId |-> "W1",
        urlWorkflowId |-> "W1",
        pendingPositionUpdates |-> EmptyMap,
        positionUpdateTimeouts |-> {},
        sent |-> <<[event |-> "join-workflow", workflowId |-> "W1", calls |-> 0]>>,
        calls |-> 0,
        switches |-> 0]
  /\ clientStores =
       [activeWorkflowId |-> "W1",
        operations |-> {},
        workflowStore |-> "local",
        workflowValues |-> [f \in {"W1"} |-> "local"],
        rehydrations |-> {}]
  /\ lastOp = NoOp
  /\ lastEmit = << >>

\* join-workspace up to the await of verifyWorkspaceAccess
JoinWorkspace(s, w) ==
  IF UserOf(s) = NoUser
  THEN /\ Commit(SocketEmit(Registry, s, "join-workspace-error", [error |-> "Authentication required"]),
                 [NoOp EXCEPT !.op = "join-workspace", !.socket = s, !.workspaceId = w,
                              !.access = "unauthenticated"])
       /\ UNCHANGED pendingJoins
  ELSE /\ Cardinality(pendingJoins) < MaxPending
       /\ <<s, w>> \notin pendingJoins
       /\ pendingJoins' = pendingJoins \cup {<<s, w>>}
       /\ Commit(Registry, [NoOp EXCEPT !.op = "join-workspace", !.socket = s, !.workspaceId = w,
                                        !.access = "pending"])

\* joinWorkspaceResume leaving the previous workspace room before it looks at
\* the outcome of the access check
joinWorkspaceResume_leavesBeforeCheck(st, s, w, access, role) ==
  LET currentWorkspaceId == getWorkspaceIdForSocket(st, s)
      st1 == IF currentWorkspaceId # None /\ currentWorkspaceId # w
             THEN cleanupUserFromWorkspaceRoom(SocketLeave(st, s, currentWorkspaceId), s, currentWorkspaceId)
             ELSE st
  IN
  IF access = "denied"
  THEN SocketEmit(st1, s, "join-workspace-error", [error |-> "Access denied to workspace"])
  ELSE IF access = "throws"
  THEN SocketEmit(st1, s, "join-workspace-error", [error |-> "Failed to verify workspace access"])
  ELSE
    LET userRole == IF role = None THEN "read" ELSE role
        st2 == SocketJoin(st1, s, w)
        st3 == IF ~Has(st2.workspaceRooms, w)
               THEN [st2 EXCEPT !.workspaceRooms = MapSet(@, w, createWorkspaceRoom(st.now))]
               ELSE st2
        st4 == [st3 EXCEPT !.workspaceRooms[w] =
                            [@ EXCEPT !.users = @ \cup {s},
                                      !.activeConnections = @ + 1]]
        st5 == setSocketWorkspace(st4, s, w, userRole)
    IN  SocketEmit(st5, s, "joined-workspace",
                   [workspaceId |-> w, role |-> userRole,
                    activeUsers |-> st5.workspaceRooms[w].activeConnections])

\* the part of join-workspace that runs once the access check has settled;
\* access is "denied", "throws" or "granted"; role is the resolved role or None
joinWorkspaceResume(st, s, w, access, role) ==
  IF access = "denied"
  THEN SocketEmit(st, s, "join-workspace-error", [error |-> "Access denied to workspace"])
  ELSE IF access = "throws"
  THEN SocketEmit(st, s, "join-workspace-error", [error |-> "Failed to verify workspace access"])
  ELSE
    LET userRole == IF role = None THEN "read" ELSE role
        currentWorkspaceId == getWorkspaceIdForSocket(st, s)
        st1 == IF currentWorkspaceId # None /\ currentWorkspaceId # w
               THEN cleanupUserFromWorkspaceRoom(SocketLeave(st, s, currentWorkspaceId), s, currentWorkspaceId)
               ELSE st
        st2 == SocketJoin(st1, s, w)
        st3 == IF ~Has(st2.workspaceRooms, w)
               THEN [st2 EXCEPT !.workspaceRooms = MapSet(@, w, createWorkspaceRoom(st.now))]
               ELSE st2
        st4 == [st3 EXCEPT !.workspaceRooms[w] =
                            [@ EXCEPT !.users = @ \cup {s},
                                      !.activeConnections = @ + 1]]
        st5 == setSocketWorkspace(st4, s, w, userRole)
    IN  SocketEmit(st5, s, "joined-workspace",
                   [workspaceId |-> w, role |-> userRole,
                    activeUsers |-> st5.workspaceRooms[w].activeConnections])

JoinWorkspaceResume(s, w, access, role) ==
  /\ <<s, w>> \in pendingJoins
  /\ access = "granted" /\ Has(workspaceRooms, w) => workspaceRooms[w].activeConnections < MaxActive
  /\ access # "granted" => role = None
  /\ pendingJoins' = pendingJoins \ {<<s, w>>}
  /\ Commit(joinWorkspaceResume(Registry, s, w, access, role),
            [NoOp EXCEPT !.op = "join-workspace-resume", !.socket = s, !.workspaceId = w,
                         !.access = access, !.role = role])

leaveWorkspace(st, s, w) ==
  SocketEmit(cleanupUserFromWorkspaceRoom(SocketLeave(st, s, w), s, w), s,
             "left-workspace", [workspaceId |-> w])

LeaveWorkspace(s, w) ==
  /\ Commit(leaveWorkspace(Registry, s, w),
            [NoOp EXCEPT !.op = "leave-workspace", !.socket = s, !.workspaceId = w])
  /\ UNCHANGED pendingJoins

\* eventMap with the operation suffixed by "ed"
EventName_operationPlusEd(resourceType, operation) ==
  CASE resourceType = "env" -> "workspace-env-updated"
    [] resourceType = "tools" -> "workspace-tool-" \o operation \o "ed"
    [] resourceType = "folders" -> "workspace-folder-" \o operation \o "ed"
    [] resourceType = "mcp" -> "workspace-mcp-updated"
    [] resourceType = "workflows" -> "workspace-workflow-" \o operation \o "ed"
    [] OTHER -> None

\* eventMap[resourceType]; a resource type that is no key of eventMap gives
\* undefined, which is None
EventName(resourceType, operation) ==
  CASE resourceType = "env" -> "workspace-env-updated"
    [] resourceType = "tools" -> "workspace-tool-" \o operation \o "d"
    [] resourceType = "folders" -> "workspace-folder-" \o operation \o "d"
    [] resourceType = "mcp" -> "workspace-mcp-updated"
    [] resourceType = "workflows" -> "workspace-workflow-" \o operation \o "d"
    [] OTHER -> None

\* handleWorkspaceResourceChange skipping a room it has stamped at this instant
handleWorkspaceResourceChange_oncePerInstant(st, workspaceId, resourceType, operation, data) ==
  IF ~Has(st.workspaceRooms, workspaceId)
     \/ st.workspaceRooms[workspaceId].lastModified = st.now
  THEN st
  ELSE LET timestamp == st.now
           st1 == [st EXCEPT !.workspaceRooms[workspaceId].lastModified = timestamp]
       IN  RoomEmit(st1, workspaceId, EventName(resourceType, operation),
                    [workspaceId |-> workspaceId, resourceType |-> resourceType,
                     operation |-> operation, data |-> data, timestamp |-> timestamp])

handleWorkspaceResourceChange(st, workspaceId, resourceType, operation, data) ==
  IF ~Has(st.workspaceRooms, workspaceId)
  THEN st
  ELSE LET timestamp == st.now
           st1 == [st EXCEPT !.workspaceRooms[workspaceId].lastModified = timestamp]
       IN  RoomEmit(st1, workspaceId, EventName(resourceType, operation),
                    [workspaceId |-> workspaceId, resourceType |-> resourceType,
                     operation |-> operation, data |-> data, timestamp |-> timestamp])

(* ---------------------------------------------------------------------- *)
(* Workflow rooms                                                          *)
(* ---------------------------------------------------------------------- *)

\* joinWorkflow(conn, workflowId) of the Room Registry; role is the role the
\* Access Resolver resolved for the connection's user
joinWorkflow(st, s, f, role) ==
  LET st1 == IF Has(st.socketToWorkflow, s)
             THEN LET current == st.socketToWorkflow[s]
                  IN  broadcastPresenceUpdate(
                        cleanupUserFromRoom(SocketLeave(st, s, current), s, current), current)
             ELSE st
      st2 == SocketJoin(st1, s, f)
      st3 == IF ~Has(st2.workflowRooms, f)
             THEN [st2 EXCEPT !.workflowRooms = MapSet(@, f, createWorkflowRoom(st.now))]
             ELSE st2
      st4 == [st3 EXCEPT !.workflowRooms[f] =
                          [@ EXCEPT !.users = MapSet(@, s, [userId |-> UserOf(s), role |-> role]),
                                    !.activeConnections = @ + 1],
                         !.socketToWorkflow = MapSet(@, s, f)]
      st5 == SocketEmit(st4, s, "joined", [workflowId |-> f])
  IN  broadcastPresenceUpdate(st5, f)

JoinWorkflow(s, f, role) ==
  /\ UserOf(s) # NoUser
  /\ Commit(joinWorkflow(Registry, s, f, role),
            [NoOp EXCEPT !.op = "join-workflow", !.socket = s, !.workflowId = f, !.role = role])
  /\ UNCHANGED pendingJoins

leaveWorkflow(st, s) ==
  LET current == st.socketToWorkflow[s]
  IN  broadcastPresenceUpdate(
        cleanupUserFromRoom(SocketLeave(st, s, current), s, current), current)

LeaveWorkflow(s) ==
  /\ Has(socketToWorkflow, s)
  /\ Commit(leaveWorkflow(Registry, s),
            [NoOp EXCEPT !.op = "leave-workflow", !.socket = s,
                         !.workflowId = socketToWorkflow[s]])
  /\ UNCHANGED pendingJoins

RECURSIVE disconnectSockets(_, _, _)
disconnectSockets(st, socketsToDisconnect, workflowId) ==
  IF socketsToDisconnect = << >>
  THEN st
  ELSE LET socketId == Head(socketsToDisconnect)
       IN  disconnectSockets(cleanupUserFromRoom(SocketLeave(st, socketId, workflowId),
                                                 socketId, workflowId),
                             Tail(socketsToDisconnect), workflowId)

\* handleWorkflowDeletion notifying the room after its members were removed
handleWorkflowDeletion_notifyAfterRemoval(st, workflowId, order) ==
  IF ~Has(st.workflowRooms, workflowId)
  THEN st
  ELSE LET st1 == disconnectSockets(st, order, workflowId)
           st2 == RoomEmit(st1, workflowId, "workflow-deleted",
                               [workflowId |-> workflowId, timestamp |-> st.now])
       IN  [st2 EXCEPT !.workflowRooms = MapDelete(@, workflowId)]

handleWorkflowDeletion(st, workflowId, order) ==
  IF ~Has(st.workflowRooms, workflowId)
  THEN st
  ELSE LET st1 == RoomEmit(st, workflowId, "workflow-deleted",
                               [workflowId |-> workflowId, timestamp |-> st.now])
           st2 == disconnectSockets(st1, order, workflowId)
       IN  [st2 EXCEPT !.workflowRooms = MapDelete(@, workflowId)]

handleWorkflowRevert(st, workflowId, timestamp) ==
  IF ~Has(st.workflowRooms, workflowId)
  THEN st
  ELSE LET st1 == RoomEmit(st, workflowId, "workflow-reverted",
                           [workflowId |-> workflowId, timestamp |-> timestamp])
       IN  [st1 EXCEPT !.workflowRooms[workflowId].lastModified = timestamp]

\* handleWorkflowUpdate emitting to the room name whether or not a room is registered
handleWorkflowUpdate_noRoomCheck(st, workflowId) ==
  LET timestamp == st.now
      st1 == RoomEmit(st, workflowId, "workflow-updated",
                      [workflowId |-> workflowId, timestamp |-> timestamp])
  IN  IF Has(st.workflowRooms, workflowId)
      THEN [st1 EXCEPT !.workflowRooms[workflowId].lastModified = timestamp]
      ELSE st1

handleWorkflowUpdate(st, workflowId) ==
  IF ~Has(st.workflowRooms, workflowId)
  THEN st
  ELSE LET timestamp == st.now
           st1 == RoomEmit(st, workflowId, "workflow-updated",
                           [workflowId |-> workflowId, timestamp |-> timestamp])
       IN  [st1 EXCEPT !.workflowRooms[workflowId].lastModified = timestamp]

handleCopilotWorkflowEdit(st, workflowId, description) ==
  IF ~Has(st.workflowRooms, workflowId)
  THEN st
  ELSE LET timestamp == st.now
           st1 == RoomEmit(st, workflowId, "copilot-workflow-edit",
                           [workflowId |-> workflowId, description |-> description,
                            timestamp |-> timestamp])
       IN  [st1 EXCEPT !.workflowRooms[workflowId].lastModified = timestamp]

\* getUniqueUserCount collecting the socket ids, the keys of room.users
getUniqueUserCount_countsSockets(st, workflowId) ==
  IF ~Has(st.workflowRooms, workflowId)
  THEN 0
  ELSE LET room == st.workflowRooms[workflowId]
           uniqueUsers == {socketId : socketId \in DOMAIN room.users}
       IN  Cardinality(uniqueUsers)

getUniqueUserCount(st, workflowId) ==
  IF ~Has(st.workflowRooms, workflowId)
  THEN 0
  ELSE LET room == st.workflowRooms[workflowId]
           uniqueUsers == {room.users[socketId].userId : socketId \in DOMAIN room.users}
       IN  Cardinality(uniqueUsers)

userSocketsIn(st, room, userId) ==
  {s \in DOMAIN st.workflowRooms[room].users : st.workflowRooms[room].users[s].userId = userId}

affectedRooms(st, userId) ==
  {f \in DOMAIN st.workflowRooms : userSocketsIn(st, f, userId) # {}}

\* permissionChangeSocket reading oldRole after the role was overwritten
permissionChangeSocket_oldRoleAfterUpdate(st, socketId, room, workspaceId, newRole, isRemoved) ==
  IF isRemoved
  THEN cleanupUserFromRoom(
         SocketLeave(SocketEmit(st, socketId, "permission-revoked", [workspaceId |-> workspaceId]),
                     socketId, room),
         socketId, room)
  ELSE LET st1 == [st EXCEPT !.workflowRooms[room].users[socketId].role = newRole]
           oldRole == st1.workflowRooms[room].users[socketId].role
       IN  SocketEmit(st1, socketId, "permission-changed",
                      [workspaceId |-> workspaceId, workflowId |-> room,
                       oldRole |-> oldRole, newRole |-> newRole])

\* the body of the loop over the user's sockets of one room
permissionChangeSocket(st, socketId, room, workspaceId, newRole, isRemoved) ==
  IF isRemoved
  THEN cleanupUserFromRoom(
         SocketLeave(SocketEmit(st, socketId, "permission-revoked", [workspaceId |-> workspaceId]),
                     socketId, room),
         socketId, room)
  ELSE LET oldRole == st.workflowRooms[room].users[socketId].role
           st1 == [st EXCEPT !.workflowRooms[room].users[socketId].role = newRole]
       IN  SocketEmit(st1, socketId, "permission-changed",
                      [workspaceId |-> workspaceId, workflowId |-> room,
                       oldRole |-> oldRole, newRole |-> newRole])

RECURSIVE permissionChangeSockets(_, _, _, _, _, _)
permissionChangeSockets(st, userSockets, room, workspaceId, newRole, isRemoved) ==
  IF userSockets = << >>
  THEN st
  ELSE permissionChangeSockets(
         permissionChangeSocket(st, Head(userSockets), room, workspaceId, newRole, isRemoved),
         Tail(userSockets), room, workspaceId, newRole, isRemoved)

\* permissionChangeRoom broadcasting the presence before the sockets are handled
permissionChangeRoom_broadcastFirst(st, room, userId, workspaceId, newRole, isRemoved, socketOrder) ==
  LET userSockets == SelectSeq(socketOrder, LAMBDA s : s \in userSocketsIn(st, room, userId))
  IN  permissionChangeSockets(broadcastPresenceUpdate(st, room),
                              userSockets, room, workspaceId, newRole, isRemoved)

\* the body of the loop over the affected rooms
permissionChangeRoom(st, room, userId, workspaceId, newRole, isRemoved, socketOrder) ==
  LET userSockets == SelectSeq(socketOrder, LAMBDA s : s \in userSocketsIn(st, room, userId))
  IN  broadcastPresenceUpdate(
        permissionChangeSockets(st, userSockets, room, workspaceId, newRole, isRemoved), room)

RECURSIVE permissionChangeRooms(_, _, _, _, _, _, _)
permissionChangeRooms(st, rooms, userId, workspaceId, newRole, isRemoved, socketOrder) ==
  IF rooms = << >>
  THEN st
  ELSE permissionChangeRooms(
         permissionChangeRoom(st, Head(rooms), userId, workspaceId, newRole, isRemoved, socketOrder),
         Tail(rooms), userId, workspaceId, newRole, isRemoved, socketOrder)

handlePermissionChange(st, userId, workspaceId, newRole, isRemoved, roomOrder, socketOrder) ==
  IF affectedRooms(st, userId) = {}
  THEN st
  ELSE permissionChangeRooms(st, roomOrder, userId, workspaceId, newRole, isRemoved, socketOrder)

SocketsOf(userId) == {s \in Sockets : UserOf(s) = userId}

(* ---------------------------------------------------------------------- *)
(* HTTP ingress                                                            *)
(* ---------------------------------------------------------------------- *)

\* A request body is what JSON.parse makes of it: kind "object" with the
\* fields of json, kind "null" (the JSON text null), or kind "malformed" (no
\* JSON text at all).
JsonBody(fields) == [kind |-> "object", json |-> fields]
Unparsable(kind) == [kind |-> kind, json |-> EmptyMap]

\* const { ... } = JSON.parse(body) completes: JSON.parse throws on a body
\* that is no JSON text, and destructuring null throws
Parses_nullDestructured(body) == body.kind # "malformed"

Parses(body) == body.kind = "object"

\* a destructured field; undefined, which is None, when the object has none
Field(json, name) == IF name \in DOMAIN json THEN json[name] ELSE None

\* if (isRemoved) on the destructured field
Truthy(json, name) == IF name \in DOMAIN json THEN json[name] ELSE FALSE

Routes ==
  {"/api/workflow-deleted", "/api/workflow-updated", "/api/copilot-workflow-edit",
   "/api/workflow-reverted", "/api/permission-changed", "/api/workspace-resource-changed"}

\* createHttpHandler passing the parsed body as data
createHttpHandler_bodyAsData(st, url, body, roomOrder, socketOrder) ==
  IF ~Parses(body)
  THEN [st |-> st, status |-> 500]
  ELSE LET json == body.json
       IN  [st |-> CASE url = "/api/workflow-deleted" ->
                          handleWorkflowDeletion(st, Field(json, "workflowId"), socketOrder)
                     [] url = "/api/workflow-updated" ->
                          handleWorkflowUpdate(st, Field(json, "workflowId"))
                     [] url = "/api/copilot-workflow-edit" ->
                          handleCopilotWorkflowEdit(st, Field(json, "workflowId"),
                                                    Field(json, "description"))
                     [] url = "/api/workflow-reverted" ->
                          handleWorkflowRevert(st, Field(json, "workflowId"),
                                               Field(json, "timestamp"))
                     [] url = "/api/permission-changed" ->
                          handlePermissionChange(st, Field(json, "userId"),
                                                 Field(json, "workspaceId"),
                                                 Field(json, "newRole"),
                                                 Truthy(json, "isRemoved"),
                                                 roomOrder, socketOrder)
                     [] url = "/api/workspace-resource-changed" ->
                          handleWorkspaceResourceChange(st, Field(json, "workspaceId"),
                                                        Field(json, "resourceType"),
                                                        Field(json, "operation"),
                                                        json),
            status |-> 200]

\* the POST routes: the try block parses the body, runs the RoomManager
\* operation and answers 200; the catch block answers 500
createHttpHandler(st, url, body, roomOrder, socketOrder) ==
  IF ~Parses(body)
  THEN [st |-> st, status |-> 500]
  ELSE LET json == body.json
       IN  [st |-> CASE url = "/api/workflow-deleted" ->
                          handleWorkflowDeletion(st, Field(json, "workflowId"), socketOrder)
                     [] url = "/api/workflow-updated" ->
                          handleWorkflowUpdate(st, Field(json, "workflowId"))
                     [] url = "/api/copilot-workflow-edit" ->
                          handleCopilotWorkflowEdit(st, Field(json, "workflowId"),
                                                    Field(json, "description"))
                     [] url = "/api/workflow-reverted" ->
                          handleWorkflowRevert(st, Field(json, "workflowId"),
                                               Field(json, "timestamp"))
                     [] url = "/api/permission-changed" ->
                          handlePermissionChange(st, Field(json, "userId"),
                                                 Field(json, "workspaceId"),
                                                 Field(json, "newRole"),
                                                 Truthy(json, "isRemoved"),
                                                 roomOrder, socketOrder)
                     [] url = "/api/workspace-resource-changed" ->
                          handleWorkspaceResourceChange(st, Field(json, "workspaceId"),
                                                        Field(json, "resourceType"),
                                                        Field(json, "operation"),
                                                        Field(json, "data")),
            status |-> 200]

OpOf(url) ==
  CASE url = "/api/workflow-deleted" -> "workflow-deleted"
    [] url = "/api/workflow-updated" -> "workflow-updated"
    [] url = "/api/copilot-workflow-edit" -> "copilot-workflow-edit"
    [] url = "/api/workflow-reverted" -> "workflow-reverted"
    [] url = "/api/permission-changed" -> "permission-changed"
    [] url = "/api/workspace-resource-changed" -> "workspace-resource-changed"

\* One POST request.  workflowRooms and room.users are Maps iterated in
\* insertion order, which the model does not keep: every order of the rooms
\* and of the sockets the operation iterates over is taken.
Post(url, body) ==
  LET json == body.json
      workflowId == Field(json, "workflowId")
      userId == Field(json, "userId")
      rooms == IF url = "/api/permission-changed" /\ Parses(body)
               THEN affectedRooms(Registry, userId)
               ELSE {}
      sockets == IF url = "/api/permission-changed" /\ Parses(body)
                 THEN SocketsOf(userId)
                 ELSE IF url = "/api/workflow-deleted" /\ Parses(body)
                         /\ Has(workflowRooms, workflowId)
                 THEN DOMAIN workflowRooms[workflowId].users
                 ELSE {}
  IN  /\ \E roomOrder \in Orders(rooms), socketOrder \in Orders(sockets) :
           LET response == createHttpHandler(Registry, url, body, roomOrder, socketOrder)
           IN  Commit(response.st,
                      [NoOp EXCEPT !.op = OpOf(url),
                                   !.workflowId = workflowId,
                                   !.userId = userId,
                                   !.workspaceId = Field(json, "workspaceId"),
                                   !.role = Field(json, "newRole"),
                                   !.isRemoved = Truthy(json, "isRemoved"),
                                   !.resourceType = Field(json, "resourceType"),
                                   !.operation = Field(json, "operation"),
                                   !.data = Field(json, "data"),
                                   !.description = Field(json, "description"),
                                   !.timestamp = Field(json, "timestamp"),
                                   !.body = body.kind,
                                   !.status = response.status])
      /\ UNCHANGED pendingJoins

WorkflowDeletion(f) == Post("/api/workflow-deleted", JsonBody([workflowId |-> f]))

WorkflowUpdate(f) == Post("/api/workflow-updated", JsonBody([workflowId |-> f]))

CopilotWorkflowEdit(f, description) ==
  Post("/api/copilot-workflow-edit", JsonBody([workflowId |-> f, description |-> description]))

WorkflowRevert(f, timestamp) ==
  Post("/api/workflow-reverted", JsonBody([workflowId |-> f, timestamp |-> timestamp]))

PermissionChange(userId, workspaceId, newRole, isRemoved) ==
  /\ isRemoved => newRole = None
  /\ ~isRemoved => newRole # None
  /\ Post("/api/permission-changed",
          JsonBody([userId |-> userId, workspaceId |-> workspaceId, newRole |-> newRole,
                    isRemoved |-> isRemoved]))

WorkspaceResourceChange(w, resourceType, operation, data) ==
  Post("/api/workspace-resource-changed",
       JsonBody([workspaceId |-> w, resourceType |-> resourceType, operation |-> operation,
                 data |-> data]))

\* a POST whose body is not a JSON object
UnparsablePost(url, kind) == Post(url, Unparsable(kind))

\* the server clock advances
Tick ==
  /\ now < MaxClock
  /\ now' = now + 1
  /\ lastOp' = [NoOp EXCEPT !.op = "tick"]
  /\ lastEmit' = << >>
  /\ UNCHANGED <<workflowRooms, workspaceRooms, socketToWorkflow, socketToWorkspace,
                 userSessions, ioRooms, pendingJoins>>
  /\ UNCHANGED clientVars

(* ---------------------------------------------------------------------- *)
(* Specifications                                                          *)
(* ---------------------------------------------------------------------- *)

ResourceTypes == {"env", "tools", "folders", "mcp", "workflows"}
Operations == {"create", "update", "delete"}
\* posted data: the names of the changed keys, alone and with their values
Data == {[keys |-> {"API_KEY"}], [keys |-> {"API_KEY"}, values |-> {"secret"}]}
\* a resource type and an operation outside the declared unions
UnknownResourceTypes == {"templates"}
UnknownOperations == {"rename"}
BodyKinds == {"malformed", "null"}
AccessResults == {"granted", "denied", "throws"}

\* the workspace rooms: two connections of different users and one that is not
\* authenticated, every outcome of the access check, one resolved role
WorkspaceSockets == {"s1", "s3", "s4"}
WorkspaceRoles == {"edit"}

NextWorkspace ==
  \/ \E s \in WorkspaceSockets, w \in Workspaces : JoinWorkspace(s, w)
  \/ \E s \in WorkspaceSockets, w \in Workspaces, access \in AccessResults,
        role \in WorkspaceRoles \cup {None} :
       /\ access = "granted" => role # None
       /\ JoinWorkspaceResume(s, w, access, role)
  \/ \E s \in WorkspaceSockets, w \in Workspaces : LeaveWorkspace(s, w)

SpecWorkspace == Init /\ [][NextWorkspace]_vars

\* the workspace fan-out: the same two connections joining one workspace with
\* one role, and every resource-change tuple for that workspace and for one
\* that has no room, the tuples outside the declared unions included
FanoutSockets == {"s1", "s3"}
JoinedWorkspaces == {"WS1"}

NextFanout ==
  \/ \E s \in FanoutSockets, w \in JoinedWorkspaces : JoinWorkspace(s, w)
  \/ \E s \in FanoutSockets, w \in JoinedWorkspaces, role \in WorkspaceRoles \cup {None} :
       JoinWorkspaceResume(s, w, "granted", role)
  \/ \E s \in FanoutSockets, w \in JoinedWorkspaces : LeaveWorkspace(s, w)
  \/ \E w \in Workspaces, resourceType \in ResourceTypes \cup UnknownResourceTypes,
        operation \in Operations \cup UnknownOperations, data \in Data :
       WorkspaceResourceChange(w, resourceType, operation, data)

SpecFanout == Init /\ [][NextFanout]_vars

\* the workflow rooms: three connections of two users joining, leaving and
\* being evicted.  These handlers read and write no workspace-room state.
PresenceSockets == {"s1", "s2", "s3"}

NextPresence ==
  \/ \E s \in PresenceSockets, f \in Workflows, role \in Roles : JoinWorkflow(s, f, role)
  \/ \E s \in PresenceSockets : LeaveWorkflow(s)
  \/ \E f \in Workflows : WorkflowDeletion(f)
  \/ \E userId \in Users, w \in Workspaces, newRole \in Roles \cup {None},
        isRemoved \in BOOLEAN : PermissionChange(userId, w, newRole, isRemoved)

SpecPresence == Init /\ [][NextPresence]_vars

\* eviction of a user who is in workspace rooms too: the two connections of
\* one user in the workflow rooms, one of which also joins (with role edit)
\* and leaves a workspace room
EvictionSockets == {"s1", "s2"}
EvictionWorkspaceSockets == {"s2"}

NextEviction ==
  \/ \E s \in EvictionWorkspaceSockets, w \in JoinedWorkspaces : JoinWorkspace(s, w)
  \/ \E s \in EvictionWorkspaceSockets, w \in JoinedWorkspaces, role \in WorkspaceRoles :
       JoinWorkspaceResume(s, w, "granted", role)
  \/ \E s \in EvictionWorkspaceSockets, w \in JoinedWorkspaces : LeaveWorkspace(s, w)
  \/ \E s \in EvictionSockets, f \in Workflows, role \in Roles : JoinWorkflow(s, f, role)
  \/ \E s \in EvictionSockets : LeaveWorkflow(s)
  \/ \E f \in Workflows : WorkflowDeletion(f)
  \/ \E userId \in Users, w \in JoinedWorkspaces, newRole \in Roles \cup {None},
        isRemoved \in BOOLEAN : PermissionChange(userId, w, newRole, isRemoved)

SpecEviction == Init /\ [][NextEviction]_vars

\* the HTTP ingress: every POST route with a JSON object and with a body that
\* is none, on workflow rooms of two connections and a workspace room of one,
\* while the server clock advances
IngressSockets == {"s1", "s3"}
IngressWorkspaceSockets == {"s1"}
IngressWorkflows == {"W1"}
IngressResourceTypes == {"env", "tools"}
IngressOperations == {"update"}
IngressData == {[keys |-> {"API_KEY"}]}
Timestamps == 0..MaxClock

NextIngress ==
  \/ \E s \in IngressWorkspaceSockets, w \in JoinedWorkspaces : JoinWorkspace(s, w)
  \/ \E s \in IngressWorkspaceSockets, w \in JoinedWorkspaces, role \in WorkspaceRoles :
       JoinWorkspaceResume(s, w, "granted", role)
  \/ \E s \in IngressSockets, f \in IngressWorkflows, role \in WorkspaceRoles : JoinWorkflow(s, f, role)
  \/ \E f \in IngressWorkflows : WorkflowDeletion(f)
  \/ \E f \in IngressWorkflows : WorkflowUpdate(f)
  \/ \E f \in IngressWorkflows, description \in {"edit by copilot"} : CopilotWorkflowEdit(f, description)
  \/ \E f \in IngressWorkflows, timestamp \in Timestamps : WorkflowRevert(f, timestamp)
  \/ \E userId \in Users, w \in JoinedWorkspaces, newRole \in WorkspaceRoles \cup {None},
        isRemoved \in BOOLEAN : PermissionChange(userId, w, newRole, isRemoved)
  \/ \E w \in JoinedWorkspaces, resourceType \in IngressResourceTypes,
        operation \in IngressOperations, data \in IngressData :
       WorkspaceResourceChange(w, resourceType, operation, data)
  \/ \E url \in Routes, kind \in BodyKinds : UnparsablePost(url, kind)
  \/ Tick

SpecIngress == Init /\ [][NextIngress]_vars

(* ---------------------------------------------------------------------- *)
(* Registry invariants of section 3                                        *)
(* ---------------------------------------------------------------------- *)

WorkspaceRoomsOf(s) == {w \in DOMAIN workspaceRooms : s \in workspaceRooms[w].users}
WorkflowRoomsOf(s) == {f \in DOMAIN workflowRooms : s \in DOMAIN workflowRooms[f].users}

\* the positions in emit of the events named event that were delivered to s,
\* and of the events named event that were broadcast to room
EventsTo(emit, s, event) ==
  {i \in DOMAIN emit : s \in emit[i].to /\ emit[i].event = event}
EventsIn(emit, room, event) ==
  {i \in DOMAIN emit : emit[i].room = room /\ emit[i].event = event}

\* C1: after any sequence of join-workspace and leave-workspace events every
\* socket id is in the users set of at most one workspace room.
C1_AtMostOneWorkspaceRoom ==
  \A s \in Sockets : Cardinality(WorkspaceRoomsOf(s)) <= 1

\* C2: between handler invocations every workspace room and every workflow
\* room of the registry has activeConnections = |users|.
C2_ActiveConnectionsIsUserCount ==
  /\ \A w \in DOMAIN workspaceRooms :
       workspaceRooms[w].activeConnections = Cardinality(workspaceRooms[w].users)
  /\ \A f \in DOMAIN workflowRooms :
       workflowRooms[f].activeConnections = Cardinality(DOMAIN workflowRooms[f].users)

\* C3: the reverse indices and the forward membership agree:
\* socketToWorkspace[s].workspaceId = w iff s is in workspaceRooms[w].users, and
\* socketToWorkflow[s] = f iff s is in workflowRooms[f].users.
C3_ReverseIndexAgrees ==
  /\ \A s \in Sockets, w \in Workspaces :
       (Has(socketToWorkspace, s) /\ socketToWorkspace[s].workspaceId = w)
         <=> w \in WorkspaceRoomsOf(s)
  /\ \A s \in Sockets, f \in Workflows :
       (Has(socketToWorkflow, s) /\ socketToWorkflow[s] = f) <=> f \in WorkflowRoomsOf(s)

\* C4: a room is in the registry iff it has at least one member: no registered
\* room has an empty users set, and a step removes a room from the registry
\* only when the sockets it removed were the room's last members.
C4_RegisteredIffMembers ==
  /\ [](/\ \A w \in DOMAIN workspaceRooms : workspaceRooms[w].users # {}
        /\ \A f \in DOMAIN workflowRooms : DOMAIN workflowRooms[f].users # {})
  /\ [][/\ \A w \in DOMAIN workspaceRooms :
             w \notin DOMAIN workspaceRooms' =>
               workspaceRooms[w].users \subseteq {lastOp'.socket}
        /\ \A f \in DOMAIN workflowRooms :
             f \notin DOMAIN workflowRooms' =>
               \A s \in DOMAIN workflowRooms[f].users : ~Has(socketToWorkflow', s)]_vars

\* C5: for every resource-change tuple processed for workspace w, every
\* connection that joined w and has not left it since (it is still joined to
\* the socket.io room w) receives exactly one event for the tuple.
C5_EveryMemberReceivesOneEvent ==
  lastOp.op = "workspace-resource-changed" =>
    \A s \in Sockets : lastOp.workspaceId \in ioRooms[s] =>
      Cardinality({i \in DOMAIN lastEmit : s \in lastEmit[i].to}) = 1

(* ---------------------------------------------------------------------- *)
(* Eviction Controller: permission changes (section 4.7)                   *)
(* ---------------------------------------------------------------------- *)

Revoked == lastOp.op = "permission-changed" /\ lastOp.isRemoved
RoleChanged == lastOp.op = "permission-changed" /\ ~lastOp.isRemoved

\* C6: after a permission change with isRemoved = true for (U, WS), no
\* connection of U is a member of workspace room WS, no socketToWorkspace entry
\* of U's connections points to WS, no connection of U is in a workflow room,
\* and no connection of U is still joined to the socket.io room WS (so none is
\* sent a later workspace-* event of WS).
C6_RevokedUserHoldsNoMembership ==
  Revoked =>
    \A s \in SocketsOf(lastOp.userId) :
      /\ lastOp.workspaceId \notin WorkspaceRoomsOf(s)
      /\ ~(Has(socketToWorkspace, s) /\ socketToWorkspace[s].workspaceId = lastOp.workspaceId)
      /\ WorkflowRoomsOf(s) = {}
      /\ lastOp.workspaceId \notin ioRooms[s]

\* C7: when a permission change with isRemoved = true for (U, WS) is processed,
\* every connection of U that is in a workflow room or in workspace room WS
\* receives permission-revoked exactly once.
C7_EveryConnectionIsToldRevoked ==
  [][(lastOp'.op = "permission-changed" /\ lastOp'.isRemoved) =>
       \A s \in SocketsOf(lastOp'.userId) :
         (WorkflowRoomsOf(s) # {} \/ lastOp'.workspaceId \in WorkspaceRoomsOf(s)) =>
           Cardinality(EventsTo(lastEmit', s, "permission-revoked")) = 1]_vars

\* C8: when user U is removed by a permission change, every workflow room U
\* was in that still has members afterwards receives exactly one
\* presence-update; it is emitted after every permission-revoked of U's
\* connections in that room, it goes to the remaining members, and its
\* snapshot is the room without U's connections.
C8_OnePresenceUpdateWithoutRevokedUser ==
  [][(lastOp'.op = "permission-changed" /\ lastOp'.isRemoved) =>
       \A f \in affectedRooms(Registry, lastOp'.userId) :
         Has(workflowRooms', f) =>
           LET gone == userSocketsIn(Registry, f, lastOp'.userId)
               updates == EventsIn(lastEmit', f, "presence-update")
           IN  /\ Cardinality(updates) = 1
               /\ \A i \in updates :
                    /\ DOMAIN lastEmit'[i].payload = (DOMAIN workflowRooms[f].users) \ gone
                    /\ \A s \in DOMAIN lastEmit'[i].payload :
                         /\ lastEmit'[i].payload[s].userId # lastOp'.userId
                         /\ lastEmit'[i].payload[s] = workflowRooms[f].users[s]
                    /\ lastEmit'[i].to = (DOMAIN workflowRooms[f].users) \ gone
                    /\ \A s \in gone : \A j \in EventsTo(lastEmit', s, "permission-revoked") : j < i]_vars

\* a revoke that left members behind in a room of the revoked user
C8_Witness ==
  /\ Revoked
  /\ \E i, j \in DOMAIN lastEmit :
       /\ lastEmit[i].event = "presence-update"
       /\ lastEmit[i].to # {}
       /\ lastEmit[j].event = "permission-revoked"

\* C9: when a permission change with isRemoved = false and role newRole is
\* processed for user U, every Presence of U in every workflow room ends with
\* role = newRole, each of these connections receives exactly one
\* permission-changed whose oldRole is the role the Presence held before and
\* whose newRole is newRole, and each affected room receives a presence-update
\* whose snapshot is the room with the new roles.
C9_RoleChangeUpdatesPresenceAndNotifies ==
  [][(lastOp'.op = "permission-changed" /\ ~lastOp'.isRemoved) =>
       \A f \in affectedRooms(Registry, lastOp'.userId) :
         /\ Has(workflowRooms', f)
         /\ DOMAIN workflowRooms'[f].users = DOMAIN workflowRooms[f].users
         /\ \A s \in userSocketsIn(Registry, f, lastOp'.userId) :
              /\ workflowRooms'[f].users[s].role = lastOp'.role
              /\ Cardinality(EventsTo(lastEmit', s, "permission-changed")) = 1
              /\ \A i \in EventsTo(lastEmit', s, "permission-changed") :
                   /\ lastEmit'[i].to = {s}
                   /\ lastEmit'[i].payload.oldRole = workflowRooms[f].users[s].role
                   /\ lastEmit'[i].payload.newRole = lastOp'.role
                   /\ lastEmit'[i].payload.workflowId = f
         /\ \E i \in EventsIn(lastEmit', f, "presence-update") :
              /\ lastEmit'[i].payload = workflowRooms'[f].users
              /\ lastEmit'[i].to = DOMAIN workflowRooms[f].users
              /\ \A s \in userSocketsIn(Registry, f, lastOp'.userId) :
                   lastEmit'[i].payload[s].role = lastOp'.role]_vars

\* a role change that reached a Presence holding another role
C9_Witness ==
  /\ RoleChanged
  /\ \E i \in DOMAIN lastEmit :
       /\ lastEmit[i].event = "permission-changed"
       /\ lastEmit[i].payload.oldRole # lastEmit[i].payload.newRole
  /\ \E i \in DOMAIN lastEmit : lastEmit[i].event = "presence-update"

C11_DeletionNotifiesThenEmptiesRoom ==
  [][lastOp'.op = "workflow-deleted" =>
       LET f == lastOp'.workflowId
           members == IF Has(workflowRooms, f) THEN DOMAIN workflowRooms[f].users ELSE {}
       IN  /\ ~Has(workflowRooms', f)
           /\ \A s \in Sockets : ~(Has(socketToWorkflow', s) /\ socketToWorkflow'[s] = f)
           /\ \A s \in members :
                /\ Cardinality(EventsTo(lastEmit', s, "workflow-deleted")) = 1
                /\ \A i \in EventsTo(lastEmit', s, "workflow-deleted") :
                     /\ lastEmit'[i].to = members
                     /\ lastEmit'[i].payload.workflowId = f]_vars

\* a deletion notice for a room with two members
C11_Witness ==
  /\ lastOp.op = "workflow-deleted"
  /\ \E i \in DOMAIN lastEmit :
       /\ lastEmit[i].event = "workflow-deleted"
       /\ Cardinality(lastEmit[i].to) >= 2
  /\ ~Has(workflowRooms, lastOp.workflowId)

\* C12: after workflow-deleted was processed for w the room is tombstoned: no
\* later join for w re-creates a room for w in the registry (the durable
\* record is never restored in this model).  Stated for the step that follows
\* the deletion notice.
C12_DeletedRoomIsTombstoned ==
  [][lastOp.op = "workflow-deleted" => ~Has(workflowRooms', lastOp.workflowId)]_vars

(* ---------------------------------------------------------------------- *)
(* Workspace fan-out: event names and payloads (section 4.6)               *)
(* ---------------------------------------------------------------------- *)

ResourceChanged == lastOp.op = "workspace-resource-changed"

\* C13: for resource types tools, folders and workflows and operations
\* create, update and delete, the one event emitted to a registered room is
\* named workspace-tool-, workspace-folder-, workspace-workflow- followed by
\* created, updated, deleted; for env with update or delete it is named
\* workspace-env-updated.
C13_EventNameFollowsTypeAndOperation ==
  (/\ ResourceChanged
   /\ lastOp.operation \in Operations
   /\ Has(workspaceRooms, lastOp.workspaceId)) =>
   LET ToolEvents ==
         [create |-> "workspace-tool-created", update |-> "workspace-tool-updated",
          delete |-> "workspace-tool-deleted"]
       FolderEvents ==
         [create |-> "workspace-folder-created", update |-> "workspace-folder-updated",
          delete |-> "workspace-folder-deleted"]
       WorkflowEvents ==
         [create |-> "workspace-workflow-created", update |-> "workspace-workflow-updated",
          delete |-> "workspace-workflow-deleted"]
   IN
    /\ lastOp.resourceType \in {"tools", "folders", "workflows", "env"} => Len(lastEmit) = 1
    /\ \A i \in DOMAIN lastEmit :
         /\ lastOp.resourceType = "tools" => lastEmit[i].event = ToolEvents[lastOp.operation]
         /\ lastOp.resourceType = "folders" => lastEmit[i].event = FolderEvents[lastOp.operation]
         /\ lastOp.resourceType = "workflows" =>
              lastEmit[i].event = WorkflowEvents[lastOp.operation]
         /\ (lastOp.resourceType = "env" /\ lastOp.operation \in {"update", "delete"}) =>
              lastEmit[i].event = "workspace-env-updated"

\* a folder deletion delivered to a member
C13_Witness ==
  /\ ResourceChanged
  /\ lastOp.resourceType = "folders"
  /\ lastOp.operation = "delete"
  /\ \E i \in DOMAIN lastEmit :
       lastEmit[i].event = "workspace-folder-deleted" /\ lastEmit[i].to # {}

\* C14: no resource type has its create or delete collapsed into the update
\* event: for mcp, create emits workspace-mcp-created, update emits
\* workspace-mcp-updated and delete emits workspace-mcp-deleted.
C14_McpEventNameFollowsOperation ==
  (/\ ResourceChanged
   /\ lastOp.resourceType = "mcp"
   /\ lastOp.operation \in Operations) =>
    LET McpEvents ==
          [create |-> "workspace-mcp-created", update |-> "workspace-mcp-updated",
           delete |-> "workspace-mcp-deleted"]
    IN  \A i \in DOMAIN lastEmit : lastEmit[i].event = McpEvents[lastOp.operation]

\* C15: the payload of an env event carries key names only: no event that
\* reaches a client for an env tuple has the values of the variables in its
\* data, whatever data was posted.
C15_EnvPayloadCarriesKeysOnly ==
  (ResourceChanged /\ lastOp.resourceType = "env") =>
    \A i \in DOMAIN lastEmit :
      lastEmit[i].to # {} => DOMAIN lastEmit[i].payload.data \subseteq {"keys"}

\* C16: a POST to /api/workspace-resource-changed whose resourceType or
\* operation is outside the allowed sets is answered with an error status
\* and emits no event.
C16_UnknownTupleIsRejected ==
  (/\ ResourceChanged
   /\ lastOp.body = "object"
   /\ (lastOp.resourceType \notin ResourceTypes \/ lastOp.operation \notin Operations)) =>
    /\ lastOp.status # 200
    /\ lastEmit = << >>

(* ---------------------------------------------------------------------- *)
(* HTTP ingress: bodies that are no JSON object (section 4.8)              *)
(* ---------------------------------------------------------------------- *)

\* C17: for each of the six POST routes, a body that cannot be parsed as JSON
\* or cannot be destructured (the JSON text null) is answered with status 500,
\* the RoomManager operation does not run (nothing is emitted) and the
\* registry is unchanged.
C17_UnparsableBodyIsAnswered500 ==
  [][lastOp'.body \in BodyKinds =>
       /\ lastOp'.status = 500
       /\ lastEmit' = << >>
       /\ UNCHANGED <<workflowRooms, workspaceRooms, socketToWorkflow, socketToWorkspace,
                      userSessions, ioRooms, pendingJoins>>]_vars

\* the JSON text null posted to a route while rooms with members are registered
C17_Witness ==
  /\ lastOp.body = "null"
  /\ lastOp.op \in {OpOf(url) : url \in Routes}
  /\ lastOp.status = 500
  /\ DOMAIN workflowRooms # {}
  /\ DOMAIN workspaceRooms # {}

(* ---------------------------------------------------------------------- *)
(* Workspace membership: rejected joins, join then leave (section 4.3)     *)
(* ---------------------------------------------------------------------- *)

\* C18: a join-workspace that is rejected (the connection is unauthenticated,
\* access is denied, or the access check throws) emits exactly one
\* join-workspace-error to the requesting connection and no joined-workspace;
\* the connection stays connected and the registry is unchanged, so it keeps
\* the workspace membership it had before.
C18_RejectedJoinChangesNothing ==
  [][(\/ lastOp'.op = "join-workspace" /\ lastOp'.access = "unauthenticated"
      \/ lastOp'.op = "join-workspace-resume" /\ lastOp'.access \in {"denied", "throws"}) =>
       /\ Len(lastEmit') = 1
       /\ lastEmit'[1].event = "join-workspace-error"
       /\ lastEmit'[1].to = {lastOp'.socket}
       /\ UNCHANGED <<workflowRooms, workspaceRooms, socketToWorkflow, socketToWorkspace,
                      userSessions, ioRooms>>]_vars

\* a member of one workspace room that was denied another one
C18_Witness ==
  /\ lastOp.op = "join-workspace-resume"
  /\ lastOp.access = "denied"
  /\ Len(lastEmit) = 1
  /\ \E w \in WorkspaceRoomsOf(lastOp.socket) :
       /\ w # lastOp.workspaceId
       /\ getWorkspaceIdForSocket(Registry, lastOp.socket) = w

\* C19: a successful join-workspace(w) by a connection that is in no workspace
\* room, followed by leave-workspace(w) from the same connection, returns room
\* w to the state it had before the join: the same users and the same
\* activeConnections, and no room again if there was none.  Stated for every
\* reachable state and every such connection, workspace and resolved role.
C19_JoinThenLeaveRestoresRoom ==
  \A s \in Sockets, w \in Workspaces, role \in Roles \cup {None} :
    (UserOf(s) # NoUser /\ WorkspaceRoomsOf(s) = {}) =>
      LET joined == joinWorkspaceResume(Registry, s, w, "granted", role)
          left == leaveWorkspace(joined, s, w)
      IN  /\ s \in joined.workspaceRooms[w].users
          /\ Has(left.workspaceRooms, w) <=> Has(workspaceRooms, w)
          /\ Has(workspaceRooms, w) =>
               /\ left.workspaceRooms[w].users = workspaceRooms[w].users
               /\ left.workspaceRooms[w].activeConnections = workspaceRooms[w].activeConnections

\* a connection that joined a room another connection is in and has left it
\* again: it is in no workspace room and the room is as it was
C19_Witness ==
  /\ lastOp.op = "leave-workspace"
  /\ lastEmit # << >>
  /\ WorkspaceRoomsOf(lastOp.socket) = {}
  /\ ~Has(socketToWorkspace, lastOp.socket)
  /\ Has(workspaceRooms, lastOp.workspaceId)
  /\ workspaceRooms[lastOp.workspaceId].activeConnections =
       Cardinality(workspaceRooms[lastOp.workspaceId].users)

\* C20: the events of one connection take effect in the order they were
\* sent: when a connection sent join-workspace(w) and then leave-workspace(w),
\* the leave arriving while the join's access check was pending, then once
\* both handlers have completed the connection is not a member of room w and
\* is not joined to the socket.io room w.
C20_LeaveAfterJoinLeavesNoMembership ==
  [][(/\ lastOp.op = "leave-workspace"
      /\ <<lastOp.socket, lastOp.workspaceId>> \in pendingJoins
      /\ lastOp'.op = "join-workspace-resume"
      /\ lastOp'.socket = lastOp.socket
      /\ lastOp'.workspaceId = lastOp.workspaceId) =>
       /\ ~(/\ Has(workspaceRooms', lastOp.workspaceId)
            /\ lastOp.socket \in workspaceRooms'[lastOp.workspaceId].users)
       /\ lastOp.workspaceId \notin ioRooms'[lastOp.socket]]_vars

(* ---------------------------------------------------------------------- *)
(* User sessions and room timestamps (sections 3, 4.5)                     *)
(* ---------------------------------------------------------------------- *)

\* C21: the UserSession recorded for a connection stays in the registry while
\* the connection is open: a workflow deletion or a permission revoke, which
\* evict the connection from its workflow room without closing the socket,
\* remove no UserSession.
C21_EvictionKeepsUserSession ==
  [][(\/ lastOp'.op = "workflow-deleted"
      \/ lastOp'.op = "permission-changed" /\ lastOp'.isRemoved) =>
       \A s \in DOMAIN userSessions :
         Has(userSessions', s) /\ userSessions'[s] = userSessions[s]]_vars

\* C22: over any sequence of workflow-updated, workflow-reverted and
\* copilot-workflow-edit notifications on a live workflow room, the room's
\* lastModified never decreases (the server clock now never goes backwards).
C22_LastModifiedNeverDecreases ==
  [][lastOp'.op \in {"workflow-updated", "workflow-reverted", "copilot-workflow-edit"} =>
       \A f \in DOMAIN workflowRooms :
         Has(workflowRooms', f) =>
           workflowRooms'[f].lastModified >= workflowRooms[f].lastModified]_vars

(* ---------------------------------------------------------------------- *)
(* Client: useCollaborativeWorkspace                                       *)
(* ---------------------------------------------------------------------- *)

\* the refs and the promises of the hook as a value
Hook ==
  [isApplyingRemoteChange |-> isApplyingRemoteChange,
   pendingFetches |-> pendingFetches,
   fetchCalls |-> fetchCalls]

CommitHook(h, op) ==
  /\ isApplyingRemoteChange' = h.isApplyingRemoteChange
  /\ pendingFetches' = h.pendingFetches
  /\ fetchCalls' = h.fetchCalls
  /\ lastOp' = op
  /\ lastEmit' = << >>
  /\ UNCHANGED <<brokerVars, routeWorkspaceId, initializerVars, notifications, workflowInit,
                 socketContext, clientStores>>

\* the handler with a guard that does not read the shared ref
createResourceUpdateHandler_refNotRead(h, hookWorkspaceId, resourceName, data) ==
  IF hookWorkspaceId = None \/ data.workspaceId # hookWorkspaceId
  THEN h
  ELSE [h EXCEPT !.isApplyingRemoteChange = TRUE,
                 !.pendingFetches = @ \cup {resourceName},
                 !.fetchCalls[resourceName] = @ + 1]

\* the handler createResourceUpdateHandler returns, run on one event: it sets
\* the ref and calls fetchFunction, whose promise is then in flight
createResourceUpdateHandler(h, hookWorkspaceId, resourceName, data) ==
  IF hookWorkspaceId = None \/ data.workspaceId # hookWorkspaceId \/ h.isApplyingRemoteChange
  THEN h
  ELSE [h EXCEPT !.isApplyingRemoteChange = TRUE,
                 !.pendingFetches = @ \cup {resourceName},
                 !.fetchCalls[resourceName] = @ + 1]

\* a workspace resource event of one of the refetched resources reaches the hook
ResourceEvent(resourceName, w) ==
  /\ fetchCalls[resourceName] < MaxFetches
  /\ CommitHook(createResourceUpdateHandler(Hook, routeWorkspaceId, resourceName,
                                            [workspaceId |-> w]),
                [NoOp EXCEPT !.op = "resource-event", !.resourceName = resourceName,
                             !.workspaceId = w])

\* .catch(...).finally(...) of the promise of fetchFunction
fetchSettled(h, resourceName) ==
  [h EXCEPT !.isApplyingRemoteChange = FALSE, !.pendingFetches = @ \ {resourceName}]

FetchSettled(resourceName, outcome) ==
  /\ resourceName \in pendingFetches
  /\ CommitHook(fetchSettled(Hook, resourceName),
                [NoOp EXCEPT !.op = "fetch-settled", !.resourceName = resourceName,
                             !.outcome = outcome])

FetchOutcomes == {"fulfilled", "rejected"}

\* the handler resetting the ref at the end of its try block only
handleWorkflowEvent_resetInTryOnly(h, hookWorkspaceId, data, throws) ==
  IF hookWorkspaceId = None \/ data.workspaceId # hookWorkspaceId \/ h.isApplyingRemoteChange
  THEN h
  ELSE LET h1 == [h EXCEPT !.isApplyingRemoteChange = TRUE]
       IN  IF throws THEN h1 ELSE [h1 EXCEPT !.isApplyingRemoteChange = FALSE]

\* handleWorkflowCreated, handleWorkflowUpdated and handleWorkflowDeleted run on
\* one event: the registry update in the try block throws or not; the catch
\* block starts a reload that the ref does not wait for; finally resets the ref
handleWorkflowEvent(h, hookWorkspaceId, data, throws) ==
  IF hookWorkspaceId = None \/ data.workspaceId # hookWorkspaceId \/ h.isApplyingRemoteChange
  THEN h
  ELSE LET h1 == [h EXCEPT !.isApplyingRemoteChange = TRUE]
       IN  [h1 EXCEPT !.isApplyingRemoteChange = FALSE]

\* a workspace-workflow-created, -updated or -deleted event reaches the hook
WorkflowEvent(operation, w, throws) ==
  CommitHook(handleWorkflowEvent(Hook, routeWorkspaceId, [workspaceId |-> w], throws),
             [NoOp EXCEPT !.op = "workflow-event", !.operation = operation, !.workspaceId = w,
                          !.outcome = IF throws THEN "throws" ELSE "returns"])

NextCollab ==
  \/ \E resourceName \in ResourceNames, w \in Workspaces : ResourceEvent(resourceName, w)
  \/ \E resourceName \in ResourceNames, outcome \in FetchOutcomes :
       FetchSettled(resourceName, outcome)
  \/ \E operation \in Operations, w \in Workspaces, throws \in BOOLEAN :
       WorkflowEvent(operation, w, throws)

SpecCollab == Init /\ [][NextCollab]_vars

\* C23: the one isApplyingRemoteChange ref makes concurrent resource events
\* drop each other: an event of one resource for the hook's workspace that
\* arrives while the refetch triggered by an event of another resource is in
\* flight starts no refetch and leaves no trace in the hook, so none is
\* started later either.
C23_EventDuringOtherRefetchIsDropped ==
  [][(/\ lastOp'.op = "resource-event"
      /\ lastOp'.workspaceId = routeWorkspaceId
      /\ pendingFetches \ {lastOp'.resourceName} # {}) =>
       UNCHANGED hookVars]_vars

\* a folder event for the hook's workspace dropped while the refetch of the
\* custom tools is in flight
C23_Witness ==
  /\ lastOp.op = "resource-event"
  /\ lastOp.resourceName = "folder"
  /\ lastOp.workspaceId = routeWorkspaceId
  /\ pendingFetches = {"custom tool"}
  /\ fetchCalls["folder"] = 0

(* ---------------------------------------------------------------------- *)
(* Client: WorkspaceInitializer                                            *)
(* ---------------------------------------------------------------------- *)

\* Init is the initializer mounted on the route of workspace WS1: its first
\* effect has called initializeWorkspace(0), which is suspended at the await
\* of the critical loads.  A function of the component closes over the
\* workspaceId of the render that created it, which is its first argument
\* here.

Initializer ==
  [mounted |-> mounted,
   initState |-> initState,
   initializingRef |-> initializingRef,
   currentWorkspaceRef |-> currentWorkspaceRef,
   initRuns |-> initRuns,
   retryTimers |-> retryTimers]

CommitInitializer(i, route, op) ==
  /\ mounted' = i.mounted
  /\ initState' = i.initState
  /\ initializingRef' = i.initializingRef
  /\ currentWorkspaceRef' = i.currentWorkspaceRef
  /\ initRuns' = i.initRuns
  /\ retryTimers' = i.retryTimers
  /\ routeWorkspaceId' = route
  /\ lastOp' = op
  /\ lastEmit' = << >>
  /\ UNCHANGED <<brokerVars, hookVars, notifications, workflowInit, socketContext,
                 clientStores>>

\* setState; React drops the update of a component that is unmounted
setState(i, state) == IF i.mounted THEN [i EXCEPT !.initState = state] ELSE i

\* initializeWorkspace up to the await of the critical loads
initializeWorkspace(i, closureWorkspaceId, retryAttempt) ==
  IF closureWorkspaceId = None \/ i.initializingRef
  THEN i
  ELSE LET i1 == [i EXCEPT !.initializingRef = TRUE]
           i2 == setState(i1, [isInitializing |-> TRUE, isReady |-> FALSE, error |-> None,
                               retryCount |-> retryAttempt])
       IN  [i2 EXCEPT !.initRuns = @ \cup {[workspaceId |-> closureWorkspaceId,
                                            retryAttempt |-> retryAttempt,
                                            phase |-> "critical"]}]

\* initializeWorkspace from the critical loads having settled, criticalFailures
\* of them rejected, up to the await of the secondary loads or to its end
\* criticalSettled scheduling a retry after the last attempt as well
criticalSettled_retriesOnceMore(i, run, criticalFailures) ==
  IF criticalFailures > 0
  THEN LET i1 == IF run.retryAttempt <= MAX_RETRIES - 1
                 THEN [i EXCEPT !.retryTimers = @ \cup {[workspaceId |-> run.workspaceId,
                                                         retryAttempt |-> run.retryAttempt]}]
                 ELSE setState(i, [isInitializing |-> FALSE, isReady |-> FALSE,
                                   error |-> "Failed to load", retryCount |-> run.retryAttempt])
       IN  [i1 EXCEPT !.initializingRef = FALSE, !.initRuns = @ \ {run}]
  ELSE [i EXCEPT !.initRuns = (@ \ {run}) \cup {[run EXCEPT !.phase = "secondary"]}]

criticalSettled(i, run, criticalFailures) ==
  IF criticalFailures > 0
  THEN LET i1 == IF run.retryAttempt < MAX_RETRIES - 1
                 THEN [i EXCEPT !.retryTimers = @ \cup {[workspaceId |-> run.workspaceId,
                                                         retryAttempt |-> run.retryAttempt]}]
                 ELSE setState(i, [isInitializing |-> FALSE, isReady |-> FALSE,
                                   error |-> "Failed to load", retryCount |-> run.retryAttempt])
       IN  [i1 EXCEPT !.initializingRef = FALSE, !.initRuns = @ \ {run}]
  ELSE [i EXCEPT !.initRuns = (@ \ {run}) \cup {[run EXCEPT !.phase = "secondary"]}]

\* initializeWorkspace from the secondary loads having settled, secondaryFailures
\* of them rejected, to its end; the failures are logged
secondarySettled(i, run, secondaryFailures) ==
  LET warned == secondaryFailures > 0
      i1 == setState(i, [isInitializing |-> FALSE, isReady |-> TRUE, error |-> None,
                         retryCount |-> run.retryAttempt])
  IN  [i1 EXCEPT !.currentWorkspaceRef = run.workspaceId,
                 !.initializingRef = FALSE,
                 !.initRuns = @ \ {run}]

\* the callback of the retry timer
timerFired(i, timer) ==
  initializeWorkspace([i EXCEPT !.initializingRef = FALSE, !.retryTimers = @ \ {timer}],
                      timer.workspaceId, timer.retryAttempt + 1)

\* retry() of the context value
retry(i, closureWorkspaceId) ==
  initializeWorkspace(setState(i, [i.initState EXCEPT !.error = None, !.retryCount = 0]),
                      closureWorkspaceId, 0)

\* the cleanup of the last effect, created by the render of closureWorkspaceId:
\* the workspace it passes to cleanupWorkspace, None when it calls nothing
cleanupEffect(i, closureWorkspaceId) ==
  IF i.currentWorkspaceRef # None /\ i.currentWorkspaceRef # closureWorkspaceId
  THEN i.currentWorkspaceRef
  ELSE None

\* the effect "initialize on workspace change" of the render of closureWorkspaceId
initializeEffect(i, closureWorkspaceId) ==
  IF closureWorkspaceId # None /\ closureWorkspaceId # i.currentWorkspaceRef
  THEN initializeWorkspace(i, closureWorkspaceId, 0)
  ELSE i

\* the initializations under way: suspended runs and scheduled retries
InFlight == Cardinality(initRuns) + Cardinality(retryTimers)

CriticalSettled(run, criticalFailures) ==
  /\ run \in initRuns
  /\ run.phase = "critical"
  /\ CommitInitializer(criticalSettled(Initializer, run, criticalFailures), routeWorkspaceId,
                       [NoOp EXCEPT !.op = "critical-settled", !.workspaceId = run.workspaceId,
                                    !.retryAttempt = run.retryAttempt,
                                    !.outcome = IF criticalFailures > 0 THEN "rejected"
                                                ELSE "fulfilled"])

SecondarySettled(run, secondaryFailures) ==
  /\ run \in initRuns
  /\ run.phase = "secondary"
  /\ CommitInitializer(secondarySettled(Initializer, run, secondaryFailures), routeWorkspaceId,
                       [NoOp EXCEPT !.op = "secondary-settled", !.workspaceId = run.workspaceId,
                                    !.retryAttempt = run.retryAttempt,
                                    !.outcome = IF secondaryFailures > 0 THEN "rejected"
                                                ELSE "fulfilled"])

TimerFired(timer) ==
  /\ timer \in retryTimers
  /\ CommitInitializer(timerFired(Initializer, timer), routeWorkspaceId,
                       [NoOp EXCEPT !.op = "retry-timer", !.workspaceId = timer.workspaceId,
                                    !.retryAttempt = timer.retryAttempt + 1])

Retry ==
  /\ mounted
  /\ InFlight < MaxRuns
  /\ CommitInitializer(retry(Initializer, routeWorkspaceId), routeWorkspaceId,
                       [NoOp EXCEPT !.op = "retry", !.workspaceId = routeWorkspaceId])

\* the route changes to workspace w: the cleanup of the effects of the last
\* render runs, then the effects of the new render
RouteChange(w) ==
  /\ mounted
  /\ w # routeWorkspaceId
  /\ InFlight < MaxRuns
  /\ CommitInitializer(initializeEffect(Initializer, w), w,
                       [NoOp EXCEPT !.op = "route-change", !.workspaceId = w,
                                    !.cleaned = cleanupEffect(Initializer, routeWorkspaceId)])

Unmount ==
  /\ mounted
  /\ CommitInitializer([Initializer EXCEPT !.mounted = FALSE], routeWorkspaceId,
                       [NoOp EXCEPT !.op = "unmount",
                                    !.cleaned = cleanupEffect(Initializer, routeWorkspaceId)])

CriticalLoads == 2
\* the secondary loads that failed: none or some
SecondaryFailed == 1

Runs ==
  [workspaceId : Workspaces, retryAttempt : 0..(MAX_RETRIES - 1), phase : {"critical", "secondary"}]

NextInitializer ==
  \/ \E run \in Runs, criticalFailures \in 0..CriticalLoads :
       CriticalSettled(run, criticalFailures)
  \/ \E run \in Runs, secondaryFailures \in 0..SecondaryFailed :
       SecondarySettled(run, secondaryFailures)
  \/ \E timer \in [workspaceId : Workspaces, retryAttempt : 0..(MAX_RETRIES - 1)] : TimerFired(timer)
  \/ Retry
  \/ \E w \in Workspaces : RouteChange(w)
  \/ Unmount

SpecInitializer == Init /\ [][NextInitializer]_vars

\* C24: when the route changes from a workspace A that finished initializing
\* (currentWorkspaceRef is A) to a different workspace B, or the initializer
\* unmounts on A, cleanupWorkspace(A) is invoked.
C24_LeavingWorkspaceCleansItUp ==
  [][(/\ lastOp'.op \in {"route-change", "unmount"}
      /\ currentWorkspaceRef = routeWorkspaceId) =>
       lastOp'.cleaned = routeWorkspaceId]_vars

(* ---------------------------------------------------------------------- *)
(* API server: notifyWorkspaceResourceChange                               *)
(* ---------------------------------------------------------------------- *)

\* A call is a record: its arguments, the requests it sent, its timeout
\* timer ("none", "armed", "cleared", "fired"), the abort signal, the
\* settlement of the promise it returned and the level it logged at.

\* notifyWorkspaceResourceChange up to the await of fetch; "" is the empty
\* workspaceId
notifyWorkspaceResourceChange(workspaceId, resourceType, operation, data) ==
  LET call == [workspaceId |-> workspaceId, resourceType |-> resourceType,
               operation |-> operation, requests |-> << >>, timer |-> "none",
               aborted |-> FALSE, promise |-> "pending", outcome |-> None, log |-> None]
  IN  IF workspaceId = ""
      THEN [call EXCEPT !.promise = "resolved", !.log = "warn"]
      ELSE [call EXCEPT !.timer = "armed",
                        !.requests = <<[url |-> "/api/workspace-resource-changed",
                                        body |-> [workspaceId |-> workspaceId,
                                                  resourceType |-> resourceType,
                                                  operation |-> operation,
                                                  data |-> data]]>>]

\* the callback of the timeout timer: controller.abort()
timeoutFired(call) == [call EXCEPT !.timer = "fired", !.aborted = TRUE]

\* notifyWorkspaceResourceChange from the settling of fetch to its end: fetch
\* resolved with an ok or a non-ok response, or rejected with a network error
\* or the AbortError
fetchReturned_timerLeftArmed(call, outcome) ==
  LET thrown == outcome \in {"network-error", "abort"}
      caught == thrown
  IN  [call EXCEPT !.outcome = outcome,
                   !.log = IF outcome = "ok" THEN "info" ELSE "warn",
                   !.promise = IF thrown /\ ~caught THEN "rejected" ELSE "resolved"]

fetchReturned(call, outcome) ==
  LET thrown == outcome \in {"network-error", "abort"}
      caught == thrown
  IN  [call EXCEPT !.outcome = outcome,
                   !.log = IF outcome = "ok" THEN "info" ELSE "warn",
                   !.timer = IF @ = "armed" THEN "cleared" ELSE @,
                   !.promise = IF thrown /\ ~caught THEN "rejected" ELSE "resolved"]

CommitNotify(calls, op) ==
  /\ notifications' = calls
  /\ lastOp' = op
  /\ lastEmit' = << >>
  /\ UNCHANGED <<brokerVars, routeWorkspaceId, hookVars, initializerVars, workflowInit,
                 socketContext, clientStores>>

NotifyCall(workspaceId, resourceType, operation, data) ==
  /\ Len(notifications) < MaxCalls
  /\ CommitNotify(Append(notifications,
                         notifyWorkspaceResourceChange(workspaceId, resourceType, operation,
                                                       data)),
                  [NoOp EXCEPT !.op = "notify", !.workspaceId = workspaceId,
                               !.resourceType = resourceType, !.operation = operation,
                               !.data = data])

TimeoutFired(n) ==
  /\ n \in DOMAIN notifications
  /\ notifications[n].timer = "armed"
  /\ CommitNotify([notifications EXCEPT ![n] = timeoutFired(@)],
                  [NoOp EXCEPT !.op = "notify-timeout"])

FetchReturned(n, outcome) ==
  /\ n \in DOMAIN notifications
  /\ notifications[n].promise = "pending"
  /\ notifications[n].aborted <=> outcome = "abort"
  /\ CommitNotify([notifications EXCEPT ![n] = fetchReturned(@, outcome)],
                  [NoOp EXCEPT !.op = "notify-fetch-returned", !.outcome = outcome])

NotifyOutcomes == {"ok", "not-ok", "network-error", "abort"}

NextNotify ==
  \/ \E workspaceId \in {"", "WS1"}, resourceType \in IngressResourceTypes,
        operation \in IngressOperations, data \in IngressData :
       NotifyCall(workspaceId, resourceType, operation, data)
  \/ \E n \in 1..MaxCalls : TimeoutFired(n)
  \/ \E n \in 1..MaxCalls, outcome \in NotifyOutcomes : FetchReturned(n, outcome)

SpecNotify == Init /\ [][NextNotify]_vars

\* C25: a call of notifyWorkspaceResourceChange sends at most one request and
\* none for an empty workspaceId; the promise it returns is never rejected; once
\* the promise is settled the timeout timer is not armed any more (it was
\* cleared, it fired, or it was never started).
C25_NotifyIsOneShotAndNeverRejects ==
  \A n \in DOMAIN notifications :
    LET call == notifications[n]
    IN  /\ Len(call.requests) <= 1
        /\ call.promise # "rejected"
        /\ call.workspaceId = "" =>
             call.requests = << >> /\ call.timer = "none" /\ call.promise = "resolved"
        /\ call.workspaceId # "" => Len(call.requests) = 1
        /\ call.promise = "resolved" => call.timer # "armed"
        /\ call.promise = "pending" => call.timer \in {"armed", "fired"}

C25_Witness ==
  \E n, k \in DOMAIN notifications :
    /\ notifications[n].outcome = "abort" /\ notifications[n].promise = "resolved"
    /\ notifications[k].outcome = "network-error" /\ notifications[k].timer = "cleared"

(* ---------------------------------------------------------------------- *)
(* Workspace fan-out: repetition, absent rooms, payloads (section 4.6)     *)
(* ---------------------------------------------------------------------- *)

\* the same POST /api/workspace-resource-changed processed n times in a row
RECURSIVE processTimes(_, _, _)
processTimes(st, n, body) ==
  IF n = 0
  THEN st
  ELSE processTimes(createHttpHandler(st, "/api/workspace-resource-changed", body,
                                      << >>, << >>).st,
                    n - 1, body)

\* C26: the broker does not deduplicate: from every reachable state in which
\* room w is registered, processing the same (w, resourceType, operation,
\* data) tuple n times in a row emits n events, each to the members of room w
\* and each with the posted data.
C26_SameTupleEmitsEachTime ==
  \A w \in DOMAIN workspaceRooms, resourceType \in ResourceTypes, operation \in Operations,
     data \in Data, n \in 1..MaxRepeats :
    LET body == JsonBody([workspaceId |-> w, resourceType |-> resourceType,
                          operation |-> operation, data |-> data])
        out == processTimes(Registry, n, body).out
    IN  /\ Len(out) = n
        /\ \A i \in 1..n :
             /\ out[i].event = out[1].event
             /\ out[i].to = {s \in Sockets : w \in ioRooms[s]}
             /\ out[i].payload.data = data

\* a tuple was processed and delivered to a member, and processing it again
\* MaxRepeats times delivers it again as often
C26_Witness ==
  /\ ResourceChanged
  /\ Len(lastEmit) = 1
  /\ lastEmit[1].to # {}
  /\ Has(workspaceRooms, lastOp.workspaceId)
  /\ LET body == JsonBody([workspaceId |-> lastOp.workspaceId,
                           resourceType |-> lastOp.resourceType,
                           operation |-> lastOp.operation, data |-> lastOp.data])
         out == processTimes(Registry, MaxRepeats, body).out
     IN  /\ Len(out) = MaxRepeats
         /\ \A i \in 1..MaxRepeats :
              out[i].event = lastEmit[1].event /\ out[i].to = lastEmit[1].to

\* C27: when no room is registered for the target, handleWorkspaceResourceChange,
\* handleWorkflowUpdate, handleWorkflowRevert, handleCopilotWorkflowEdit and
\* handleWorkflowDeletion emit nothing and change nothing in the registry.
C27_AbsentRoomIsNoOp ==
  [][(/\ lastOp'.body = "object"
      /\ \/ /\ lastOp'.op = "workspace-resource-changed"
            /\ ~Has(workspaceRooms, lastOp'.workspaceId)
         \/ /\ lastOp'.op \in {"workflow-updated", "workflow-reverted",
                                "copilot-workflow-edit", "workflow-deleted"}
            /\ ~Has(workflowRooms, lastOp'.workflowId)) =>
       /\ lastEmit' = << >>
       /\ UNCHANGED <<workflowRooms, workspaceRooms, socketToWorkflow, socketToWorkspace,
                      userSessions, ioRooms, pendingJoins>>]_vars

\* a workflow update posted for a workflow without a room while a workspace
\* room with a member is registered
C27_Witness ==
  /\ lastOp.op = "workflow-updated"
  /\ lastOp.body = "object"
  /\ ~Has(workflowRooms, lastOp.workflowId)
  /\ lastEmit = << >>
  /\ \E w \in DOMAIN workspaceRooms : workspaceRooms[w].users # {}

\* C28: every event of the fan-out carries the workspaceId, resourceType and
\* operation of the posted tuple and data equal to the posted data, for env
\* and mcp as for the other resource types.
C28_PayloadCarriesTheTuple ==
  (ResourceChanged /\ lastOp.body = "object") =>
    \A i \in DOMAIN lastEmit :
      /\ lastEmit[i].payload.workspaceId = lastOp.workspaceId
      /\ lastEmit[i].payload.resourceType = lastOp.resourceType
      /\ lastEmit[i].payload.operation = lastOp.operation
      /\ lastEmit[i].payload.data = lastOp.data

\* an env update with values in its data delivered to a member
C28_Witness ==
  /\ ResourceChanged
  /\ lastOp.resourceType = "env"
  /\ \E i \in DOMAIN lastEmit :
       /\ lastEmit[i].to # {}
       /\ "values" \in DOMAIN lastEmit[i].payload.data
       /\ lastEmit[i].payload.data = lastOp.data

(* ---------------------------------------------------------------------- *)
(* Queries of the registry (section 4.7)                                   *)
(* ---------------------------------------------------------------------- *)

\* C29: getUniqueUserCount(w) is the number of users that have at least one
\* Presence in room w, however many connections each of them has there, and
\* 0 when no room w is registered.
C29_UniqueUserCountCountsUsers ==
  \A f \in Workflows :
    /\ ~Has(workflowRooms, f) => getUniqueUserCount(Registry, f) = 0
    /\ Has(workflowRooms, f) =>
         getUniqueUserCount(Registry, f) =
           Cardinality({u \in Users : \E s \in DOMAIN workflowRooms[f].users :
                                        workflowRooms[f].users[s].userId = u})

\* a room with three connections of two users, and a workflow without a room
C29_Witness ==
  /\ \E f \in DOMAIN workflowRooms :
       /\ Cardinality(DOMAIN workflowRooms[f].users) = 3
       /\ getUniqueUserCount(Registry, f) = 2
  /\ \E f \in Workflows : ~Has(workflowRooms, f) /\ getUniqueUserCount(Registry, f) = 0

(* ---------------------------------------------------------------------- *)
(* Workspace membership: leave by a non-member (section 4.3)               *)
(* ---------------------------------------------------------------------- *)

\* C30: a leave-workspace naming a registered room w of which the sending
\* connection is not a member leaves room w unchanged (same users, same
\* activeConnections, still registered) and leaves the connection's own
\* reverse-index entry unchanged.
C30_LeaveByNonMemberChangesNothing ==
  [][(/\ lastOp'.op = "leave-workspace"
      /\ Has(workspaceRooms, lastOp'.workspaceId)
      /\ lastOp'.socket \notin workspaceRooms[lastOp'.workspaceId].users) =>
       /\ Has(workspaceRooms', lastOp'.workspaceId)
       /\ workspaceRooms'[lastOp'.workspaceId] = workspaceRooms[lastOp'.workspaceId]
       /\ Has(socketToWorkspace', lastOp'.socket) <=> Has(socketToWorkspace, lastOp'.socket)
       /\ Has(socketToWorkspace, lastOp'.socket) =>
            socketToWorkspace'[lastOp'.socket] = socketToWorkspace[lastOp'.socket]]_vars

(* ---------------------------------------------------------------------- *)
(* Permission change: scope (section 4.7)                                  *)
(* ---------------------------------------------------------------------- *)

\* the workspace a workflow belongs to, a fact of the durable workflow store
WorkspaceOfWorkflow(f) == IF f = "W1" THEN "WS1" ELSE "WS2"

\* C31: a permission change for (U, WS) leaves the workflow rooms of other
\* workspaces alone: such a room keeps its Presences with their roles, and
\* no permission-changed or permission-revoked event goes to a connection
\* that has no Presence in a workflow room of WS.
C31_PermissionChangeStaysInItsWorkspace ==
  [][(lastOp'.op = "permission-changed" /\ lastOp'.body = "object") =>
       /\ \A f \in DOMAIN workflowRooms :
            WorkspaceOfWorkflow(f) # lastOp'.workspaceId =>
              /\ Has(workflowRooms', f)
              /\ workflowRooms'[f].users = workflowRooms[f].users
       /\ \A i \in DOMAIN lastEmit' :
            lastEmit'[i].event \in {"permission-changed", "permission-revoked"} =>
              \A s \in lastEmit'[i].to :
                \E f \in DOMAIN workflowRooms :
                  /\ WorkspaceOfWorkflow(f) = lastOp'.workspaceId
                  /\ s \in DOMAIN workflowRooms[f].users]_vars

(* ---------------------------------------------------------------------- *)
(* Workspace membership: the joined-workspace confirmation (section 4.3)   *)
(* ---------------------------------------------------------------------- *)

\* C32: when joined-workspace has been emitted to a connection, the
\* connection is in the users of the room and indexed to the workspace; the
\* role of the event is the role cached in the index, which is the resolved
\* role, or read when access was granted without a role; activeUsers is the
\* activeConnections of the room.
C32_JoinedWorkspaceFollowsRegistration ==
  \A i \in DOMAIN lastEmit :
    lastEmit[i].event = "joined-workspace" =>
      LET w == lastEmit[i].payload.workspaceId
      IN  /\ lastEmit[i].to = {lastOp.socket}
          /\ w = lastOp.workspaceId
          /\ Has(workspaceRooms, w)
          /\ lastOp.socket \in workspaceRooms[w].users
          /\ Has(socketToWorkspace, lastOp.socket)
          /\ socketToWorkspace[lastOp.socket] =
               [workspaceId |-> w, role |-> lastEmit[i].payload.role]
          /\ lastEmit[i].payload.role = (IF lastOp.role = None THEN "read" ELSE lastOp.role)
          /\ lastEmit[i].payload.activeUsers = workspaceRooms[w].activeConnections

\* a second connection joined a room with the role edit, and a connection
\* joined without a resolved role
C32_Witness ==
  /\ lastOp.op = "join-workspace-resume"
  /\ lastOp.role = "edit"
  /\ \E i \in DOMAIN lastEmit :
       /\ lastEmit[i].event = "joined-workspace"
       /\ lastEmit[i].payload.activeUsers = 2
  /\ \E s \in DOMAIN socketToWorkspace :
       s # lastOp.socket /\ socketToWorkspace[s].role = "read"

(* ---------------------------------------------------------------------- *)
(* Client: WorkflowInitializer                                             *)
(* ---------------------------------------------------------------------- *)

\* Init is the initializer mounted on the route of workflow W1 with
\* initializeWorkflow(0) suspended at the await of setActiveWorkflow.

\* the workflow id of the route
routeWorkflowId == "W1"

\* initializeWorkflow up to the await of setActiveWorkflow
initializeWorkflow(i, workflowId, retryAttempt) ==
  IF workflowId = None \/ i.initializingRef
  THEN i
  ELSE IF i.activeWorkflowId = workflowId /\ i.currentWorkflowRef = workflowId
  THEN [i EXCEPT !.state = [isInitializing |-> FALSE, isReady |-> TRUE, error |-> None,
                            retryCount |-> 0]]
  ELSE [i EXCEPT !.initializingRef = TRUE,
                 !.state = [isInitializing |-> TRUE, isReady |-> FALSE, error |-> None,
                            retryCount |-> retryAttempt],
                 !.runs = @ \cup {[workflowId |-> workflowId, retryAttempt |-> retryAttempt]}]

\* initializeWorkflow from the settling of setActiveWorkflow to its end
setActiveWorkflowSettled(i, run, outcome) ==
  LET i1 ==
        IF outcome = "fulfilled"
        THEN [i EXCEPT !.activeWorkflowId = run.workflowId,
                       !.state = [isInitializing |-> FALSE, isReady |-> TRUE, error |-> None,
                                  retryCount |-> run.retryAttempt],
                       !.currentWorkflowRef = run.workflowId]
        ELSE IF run.retryAttempt < MAX_RETRIES - 1
        THEN [i EXCEPT !.timers = @ \cup {run}]
        ELSE [i EXCEPT !.state = [isInitializing |-> FALSE, isReady |-> FALSE,
                                  error |-> "Failed to initialize workflow",
                                  retryCount |-> run.retryAttempt]]
  IN  [i1 EXCEPT !.initializingRef = FALSE, !.runs = @ \ {run}]

\* the callback of the retry timer of initializeWorkflow
workflowTimerFired(i, timer) ==
  initializeWorkflow([i EXCEPT !.initializingRef = FALSE, !.timers = @ \ {timer}],
                     timer.workflowId, timer.retryAttempt + 1)

\* retry() of the context value of WorkflowInitializer
workflowRetry(i, workflowId) ==
  initializeWorkflow([i EXCEPT !.state = [@ EXCEPT !.error = None, !.retryCount = 0]],
                     workflowId, 0)

CommitWorkflowInit(i, op) ==
  /\ workflowInit' = i
  /\ lastOp' = op
  /\ lastEmit' = << >>
  /\ UNCHANGED <<brokerVars, routeWorkspaceId, hookVars, initializerVars, notifications,
                 socketContext, clientStores>>

SetActiveWorkflowSettled(run, outcome) ==
  /\ run \in workflowInit.runs
  /\ CommitWorkflowInit(setActiveWorkflowSettled(workflowInit, run, outcome),
                        [NoOp EXCEPT !.op = "set-active-workflow-settled",
                                     !.workflowId = run.workflowId,
                                     !.retryAttempt = run.retryAttempt,
                                     !.outcome = outcome])

WorkflowTimerFired(timer) ==
  /\ timer \in workflowInit.timers
  /\ CommitWorkflowInit(workflowTimerFired(workflowInit, timer),
                        [NoOp EXCEPT !.op = "workflow-retry-timer",
                                     !.workflowId = timer.workflowId,
                                     !.retryAttempt = timer.retryAttempt + 1])

WorkflowRetry ==
  /\ Cardinality(workflowInit.runs) + Cardinality(workflowInit.timers) < MaxRuns
  /\ CommitWorkflowInit(workflowRetry(workflowInit, routeWorkflowId),
                        [NoOp EXCEPT !.op = "workflow-retry", !.workflowId = routeWorkflowId])

WorkflowRuns == [workflowId : {routeWorkflowId}, retryAttempt : 0..(MAX_RETRIES - 1)]

\* the two initializers, each started by its mount and by retry()
NextRetries ==
  \/ \E run \in Runs, criticalFailures \in 0..CriticalLoads :
       CriticalSettled(run, criticalFailures)
  \/ \E run \in Runs, secondaryFailures \in 0..SecondaryFailed :
       SecondarySettled(run, secondaryFailures)
  \/ \E timer \in [workspaceId : Workspaces, retryAttempt : 0..(MAX_RETRIES - 1)] : TimerFired(timer)
  \/ Retry
  \/ \E run \in WorkflowRuns, outcome \in FetchOutcomes : SetActiveWorkflowSettled(run, outcome)
  \/ \E timer \in WorkflowRuns : WorkflowTimerFired(timer)
  \/ WorkflowRetry

SpecRetries == Init /\ [][NextRetries]_vars

C34_AtMostOneRunInFlight == Cardinality(initRuns) <= 1

\* C35: after the route's workspace id changed, the new workspace is
\* eventually initialized: once no run is in flight and no retry is scheduled,
\* the mounted initializer either is in the error state or has
\* currentWorkspaceRef equal to the route's workspace; and a run started for a
\* workspace that is no longer the route's never marks the initializer ready.
C35_RouteWorkspaceIsEventuallyInitialized ==
  [][/\ (mounted' /\ initRuns' = {} /\ retryTimers' = {} /\ initState'.error = None) =>
          currentWorkspaceRef' = routeWorkspaceId'
     /\ (lastOp'.op = "secondary-settled" /\ lastOp'.workspaceId # routeWorkspaceId') =>
          (initState' = initState /\ currentWorkspaceRef' = currentWorkspaceRef)]_vars

(* ---------------------------------------------------------------------- *)
(* Client hook: the shared flag is released                                *)
(* ---------------------------------------------------------------------- *)

Blocks == {"b1", "b2"}

CommitSocketContext(c, op) ==
  /\ socketContext' = c
  /\ lastOp' = op
  /\ lastEmit' = << >>
  /\ UNCHANGED <<brokerVars, routeWorkspaceId, hookVars, initializerVars, notifications,
                 workflowInit, clientStores>>

\* socket.emit
socketEmit(c, message) == [c EXCEPT !.sent = Append(@, message)]

\* emitWorkflowOperation('update-position', 'block', {id: blockId, commit})
emitWorkflowOperation_commitKeepsTimer(c, blockId, commit) ==
  IF c.currentWorkflowId = None
  THEN c
  ELSE LET update == [event |-> "workflow-operation", blockId |-> blockId, commit |-> commit,
                      workflowId |-> c.currentWorkflowId, calls |-> c.calls + 1]
       IN  IF commit
           THEN socketEmit(c, update)
           ELSE [c EXCEPT !.pendingPositionUpdates = MapSet(@, blockId, update),
                          !.positionUpdateTimeouts = @ \cup {blockId}]

emitWorkflowOperation(c, blockId, commit) ==
  IF c.currentWorkflowId = None
  THEN c
  ELSE LET update == [event |-> "workflow-operation", blockId |-> blockId, commit |-> commit,
                      workflowId |-> c.currentWorkflowId, calls |-> c.calls + 1]
       IN  IF commit
           THEN [socketEmit(c, update) EXCEPT
                   !.pendingPositionUpdates = MapDelete(@, blockId),
                   !.positionUpdateTimeouts = @ \ {blockId}]
           ELSE [c EXCEPT !.pendingPositionUpdates = MapSet(@, blockId, update),
                          !.positionUpdateTimeouts = @ \cup {blockId}]

\* the callback of the throttle timer of a block
positionTimeout(c, blockId) ==
  LET c1 == IF Has(c.pendingPositionUpdates, blockId)
            THEN [socketEmit(c, c.pendingPositionUpdates[blockId]) EXCEPT
                    !.pendingPositionUpdates = MapDelete(@, blockId)]
            ELSE c
  IN  [c1 EXCEPT !.positionUpdateTimeouts = @ \ {blockId}]

\* leaveWorkflow()
leaveWorkflowClient(c) ==
  IF c.currentWorkflowId = None
  THEN c
  ELSE [socketEmit(c, [event |-> "leave-workflow", workflowId |-> c.currentWorkflowId,
                       calls |-> c.calls]) EXCEPT
          !.currentWorkflowId = None,
          !.positionUpdateTimeouts = {},
          !.pendingPositionUpdates = EmptyMap]

\* leave the current room if any, join workflowId: the body joinWorkflow() and
\* the room switching effect share
switchRoom(c, workflowId) ==
  IF c.currentWorkflowId = workflowId
  THEN c
  ELSE LET c1 == IF c.currentWorkflowId # None
                 THEN socketEmit(c, [event |-> "leave-workflow",
                                     workflowId |-> c.currentWorkflowId, calls |-> c.calls])
                 ELSE c
           c2 == socketEmit(c1, [event |-> "join-workflow", workflowId |-> workflowId,
                                 calls |-> c.calls])
       IN  [c2 EXCEPT !.currentWorkflowId = workflowId]

\* joinWorkflow(workflowId)
joinWorkflowClient(c, workflowId) == switchRoom(c, workflowId)

\* the effect "workflow room switching when URL changes"
roomSwitchEffect(c) ==
  IF c.urlWorkflowId = None THEN c ELSE switchRoom(c, c.urlWorkflowId)

EmitPositionUpdate(blockId, commit) ==
  /\ socketContext.calls < MaxUpdates
  /\ CommitSocketContext([emitWorkflowOperation(socketContext, blockId, commit) EXCEPT
                            !.calls = @ + 1],
                         [NoOp EXCEPT !.op = "update-position", !.data = blockId,
                                      !.outcome = IF commit THEN "commit" ELSE "no-commit"])

PositionTimeout(blockId) ==
  /\ blockId \in socketContext.positionUpdateTimeouts
  /\ CommitSocketContext(positionTimeout(socketContext, blockId),
                         [NoOp EXCEPT !.op = "position-timeout", !.data = blockId])

LeaveWorkflowClient ==
  /\ socketContext.switches < MaxSwitches
  /\ CommitSocketContext([leaveWorkflowClient(socketContext) EXCEPT !.switches = @ + 1],
                         [NoOp EXCEPT !.op = "client-leave-workflow"])

JoinWorkflowClient(workflowId) ==
  /\ socketContext.switches < MaxSwitches
  /\ CommitSocketContext([joinWorkflowClient(socketContext, workflowId) EXCEPT
                            !.switches = @ + 1],
                         [NoOp EXCEPT !.op = "client-join-workflow", !.workflowId = workflowId])

\* the URL changes to another workflow
Navigate(workflowId) ==
  /\ socketContext.switches < MaxSwitches
  /\ workflowId # socketContext.urlWorkflowId
  /\ CommitSocketContext([socketContext EXCEPT !.urlWorkflowId = workflowId,
                                               !.switches = @ + 1],
                         [NoOp EXCEPT !.op = "navigate", !.workflowId = workflowId])

\* the room switching effect runs after urlWorkflowId or currentWorkflowId changed
RoomSwitchEffect ==
  /\ socketContext.urlWorkflowId # socketContext.currentWorkflowId
  /\ CommitSocketContext(roomSwitchEffect(socketContext),
                         [NoOp EXCEPT !.op = "room-switch-effect",
                                      !.workflowId = socketContext.urlWorkflowId])

NextPosition ==
  \/ \E blockId \in Blocks, commit \in BOOLEAN : EmitPositionUpdate(blockId, commit)
  \/ \E blockId \in Blocks : PositionTimeout(blockId)
  \/ LeaveWorkflowClient
  \/ \E workflowId \in Workflows : JoinWorkflowClient(workflowId)
  \/ \E workflowId \in Workflows : Navigate(workflowId)
  \/ RoomSwitchEffect

SpecPosition == Init /\ [][NextPosition]_vars

\* C37: for each block the position updates are emitted in the order they
\* were passed to emitWorkflowOperation, so nothing queued before a commit is
\* emitted after it; a commit passed while the client is in a workflow is
\* emitted in that call and leaves no queued update and no timer for its
\* block; a timer firing emits the update queued last for its block, once.
C37_CommittedPositionIsLast ==
  [][/\ \A i, j \in DOMAIN socketContext'.sent :
          (/\ i < j
           /\ socketContext'.sent[i].event = "workflow-operation"
           /\ socketContext'.sent[j].event = "workflow-operation"
           /\ socketContext'.sent[i].blockId = socketContext'.sent[j].blockId) =>
            socketContext'.sent[i].calls < socketContext'.sent[j].calls
     /\ (/\ lastOp'.op = "update-position"
         /\ lastOp'.outcome = "commit"
         /\ socketContext.currentWorkflowId # None) =>
          /\ Len(socketContext'.sent) = Len(socketContext.sent) + 1
          /\ LET update == socketContext'.sent[Len(socketContext'.sent)]
             IN  /\ update.event = "workflow-operation"
                 /\ update.commit
                 /\ update.blockId = lastOp'.data
                 /\ update.calls = socketContext'.calls
          /\ ~Has(socketContext'.pendingPositionUpdates, lastOp'.data)
          /\ lastOp'.data \notin socketContext'.positionUpdateTimeouts
     /\ (/\ lastOp'.op = "update-position"
         /\ lastOp'.outcome = "no-commit"
         /\ socketContext.currentWorkflowId # None) =>
          /\ socketContext'.sent = socketContext.sent
          /\ socketContext'.pendingPositionUpdates[lastOp'.data].calls = socketContext'.calls
          /\ lastOp'.data \in socketContext'.positionUpdateTimeouts
     /\ lastOp'.op = "position-timeout" =>
          /\ Has(socketContext.pendingPositionUpdates, lastOp'.data) =>
               socketContext'.sent =
                 Append(socketContext.sent, socketContext.pendingPositionUpdates[lastOp'.data])
          /\ ~Has(socketContext'.pendingPositionUpdates, lastOp'.data)]_vars

\* a block was moved and committed while its timer was pending, and the
\* commit is the only update the client emitted for it
C37_Witness ==
  /\ lastOp.op = "update-position"
  /\ lastOp.outcome = "commit"
  /\ socketContext.calls = 2
  /\ Len(socketContext.sent) = 2
  /\ socketContext.sent[2].event = "workflow-operation"
  /\ socketContext.sent[2].calls = 2
  /\ socketContext.positionUpdateTimeouts = {}

\* C38: a position update queued while the client was in a workflow is not
\* emitted after the client emitted leave-workflow for that workflow.
C38_NoQueuedUpdateAfterLeave ==
  \A i, j \in DOMAIN socketContext.sent :
    (/\ i < j
     /\ socketContext.sent[i].event = "leave-workflow"
     /\ socketContext.sent[j].event = "workflow-operation") =>
      ~(/\ socketContext.sent[j].workflowId = socketContext.sent[i].workflowId
        /\ socketContext.sent[j].calls <= socketContext.sent[i].calls)

(* ---------------------------------------------------------------------- *)
(* Client: rehydration of the workflow stores                              *)
(* ---------------------------------------------------------------------- *)

\* Init is the client on workflow W1 with an empty operation queue and its
\* local state in the workflow store and the subblock store.  rehydrations
\* are the handlers suspended at an await: the fetch of the copilot handler,
\* the imports of rehydrateWorkflowStores.

Sources == {"copilot", "workflow-state"}

CommitStores(s, op) ==
  /\ clientStores' = s
  /\ lastOp' = op
  /\ lastEmit' = << >>
  /\ UNCHANGED <<brokerVars, routeWorkspaceId, hookVars, initializerVars, notifications,
                 workflowInit, socketContext>>

\* rehydrateWorkflowStores replacing the stores whatever the queue holds
rehydrateWorkflowStores_ignoresQueue(s, workflowId, workflowState, source) ==
  IF s.activeWorkflowId # workflowId
  THEN [stores |-> s, result |-> FALSE]
  ELSE [stores |-> [s EXCEPT !.workflowStore = workflowState,
                             !.workflowValues = MapSet(@, workflowId, workflowState)],
        result |-> TRUE]

\* rehydrateWorkflowStores after its imports resolved
rehydrateWorkflowStores(s, workflowId, workflowState, source) ==
  IF s.activeWorkflowId # workflowId
  THEN [stores |-> s, result |-> FALSE]
  ELSE LET hasPending == \E op \in s.operations :
                           op.workflowId = workflowId /\ op.status # "confirmed"
       IN  IF hasPending
           THEN [stores |-> s, result |-> FALSE]
           ELSE [stores |-> [s EXCEPT !.workflowStore = workflowState,
                                      !.workflowValues = MapSet(@, workflowId, workflowState)],
                 result |-> TRUE]

\* a workflow-state or copilot-workflow-edit message arrives: its handler runs
\* to its first await.  hasState is whether the message, or for the copilot
\* the fetched response, carries a state
MessageArrives(source, workflowId, workflowState, hasState) ==
  LET rehydration == [source |-> source, workflowId |-> workflowId,
                      workflowState |-> workflowState, hasState |-> hasState]
  IN  /\ rehydration \notin clientStores.rehydrations
      /\ source = "workflow-state" => hasState
      /\ CommitStores([clientStores EXCEPT !.rehydrations = @ \cup {rehydration}],
                      [NoOp EXCEPT !.op = "message", !.description = source,
                                   !.workflowId = workflowId])

\* the suspended handler resumes: the copilot's fetch failed or brought no
\* state, or rehydrateWorkflowStores runs its checks and replaces the stores
RehydrationResumes(rehydration) ==
  /\ rehydration \in clientStores.rehydrations
  /\ LET s == [clientStores EXCEPT !.rehydrations = @ \ {rehydration}]
         outcome == IF rehydration.hasState
                    THEN rehydrateWorkflowStores(s, rehydration.workflowId,
                                                 rehydration.workflowState, rehydration.source)
                    ELSE [stores |-> s, result |-> FALSE]
     IN  CommitStores(outcome.stores,
                      [NoOp EXCEPT !.op = "rehydrate", !.description = rehydration.source,
                                   !.workflowId = rehydration.workflowId,
                                   !.outcome = IF outcome.result THEN "replaced" ELSE "skipped"])

\* the operation queue: a local edit queues an operation, the server confirms it
QueueOperation(workflowId) ==
  /\ clientStores.activeWorkflowId = workflowId
  /\ CommitStores([clientStores EXCEPT
                     !.operations = @ \cup {[workflowId |-> workflowId, status |-> "pending"]},
                     !.workflowStore = "local",
                     !.workflowValues = MapSet(@, workflowId, "local")],
                  [NoOp EXCEPT !.op = "queue-operation", !.workflowId = workflowId])

ConfirmOperation(workflowId) ==
  /\ [workflowId |-> workflowId, status |-> "pending"] \in clientStores.operations
  /\ CommitStores([clientStores EXCEPT
                     !.operations = (@ \ {[workflowId |-> workflowId, status |-> "pending"]})
                                      \cup {[workflowId |-> workflowId, status |-> "confirmed"]}],
                  [NoOp EXCEPT !.op = "confirm-operation", !.workflowId = workflowId])

\* the registry makes another workflow the active one
SetActiveWorkflow(workflowId) ==
  /\ clientStores.activeWorkflowId # workflowId
  /\ CommitStores([clientStores EXCEPT !.activeWorkflowId = workflowId,
                                       !.workflowStore = "local"],
                  [NoOp EXCEPT !.op = "set-active-workflow", !.workflowId = workflowId])

NextStores ==
  \/ \E source \in Sources, workflowId \in Workflows, workflowState \in {"server"},
        hasState \in BOOLEAN : MessageArrives(source, workflowId, workflowState, hasState)
  \/ \E rehydration \in [source : Sources, workflowId : Workflows,
                          workflowState : {"server"}, hasState : BOOLEAN] :
       RehydrationResumes(rehydration)
  \/ \E workflowId \in Workflows : QueueOperation(workflowId)
  \/ \E workflowId \in Workflows : ConfirmOperation(workflowId)
  \/ \E workflowId \in Workflows : SetActiveWorkflow(workflowId)

SpecStores == Init /\ [][NextStores]_vars

\* C39: a rehydration, from workflow-state or from copilot-workflow-edit,
\* that runs while the operation queue holds an operation of that workflow
\* whose status is not confirmed, or while that workflow is not the active
\* one, returns false and leaves the workflow store and the subblock store as
\* they are.
C39_NoRehydrationOverPendingOrInactive ==
  [][(/\ lastOp'.op = "rehydrate"
      /\ \/ clientStores.activeWorkflowId # lastOp'.workflowId
         \/ \E op \in clientStores.operations :
              op.workflowId = lastOp'.workflowId /\ op.status # "confirmed") =>
       /\ lastOp'.outcome = "skipped"
       /\ clientStores'.workflowStore = clientStores.workflowStore
       /\ clientStores'.workflowValues = clientStores.workflowValues]_vars

\* a copilot rehydration of the active workflow was skipped over a pending
\* operation
C39_Witness ==
  /\ lastOp.op = "rehydrate"
  /\ lastOp.description = "copilot"
  /\ lastOp.outcome = "skipped"
  /\ lastOp.workflowId = clientStores.activeWorkflowId
  /\ clientStores.workflowStore = "local"
  /\ \E op \in clientStores.operations :
       op.workflowId = lastOp.workflowId /\ op.status = "pending"

====
